---- MODULE Spec2Model ----
(***************************************************************************)
(* A model of the video-processor transcoding orchestrator                 *)
(* (src/src/services/videoService.ts): the Status Register, the job        *)
(* orchestrator convertToHLS with its best-effort and mandatory stages,    *)
(* the Resolution Planner, the Upload Coordinator with its p-limit pool,   *)
(* and the cleanup code, over an explicit filesystem of paths.             *)
(*                                                                         *)
(* One step of the model is one turn of the Node event loop: the           *)
(* synchronous code that runs from the arrival of an engine, storage or    *)
(* timer event up to the next await of a pending operation.                *)
(***************************************************************************)
EXTENDS Integers, Sequences, FiniteSets, TLC

VARIABLES
  status,      \* conversionStatus: job id -> phase ("none" = no entry)
  dirs,        \* the directories that exist, as paths (sequences of names)
  files,       \* the regular files that exist, as paths
  pc,          \* per invocation: the await it is suspended at
  oid,         \* per invocation: the objectId argument
  vpath,       \* per invocation: the videoPath argument
  plan,        \* per invocation: resolutions (getDynamicResolutions result)
  variants,    \* per invocation: variantPlaylists
  encoding,    \* per invocation: tier indices whose ffmpeg encode is in flight
  launched,    \* per invocation: tier indices in the order their encode started
  upFiles,     \* per coordinator call: files[] found by readDir
  upState,     \* per coordinator call: each upload task's state
  upLog,       \* per coordinator call: the s3.upload invocations made, in order
  upResult,    \* per coordinator call: how uploadHlsFilesToS3 settled
  outcome,     \* per invocation: how convertToHLS settled, and with what error
  wrote,       \* per invocation: the phases it wrote to the register, in order
  raised,      \* per invocation: the error value thrown inside the outer try
  skipped,     \* per invocation: the best-effort stages that failed
  progress,    \* per invocation: mandatory milestones passed
  fault,       \* per invocation: a cleanup filesystem operation failed
  inputSeen,   \* per invocation: the engine call in flight found the source
  frames,      \* per invocation: frame extractions launched by the sprite stage
  manifest,    \* per invocation: the master manifests written, each as its lines
  frameTasks,  \* per invocation: the state of each sprite frame promise
               \* (position k is frame index k - 1)
  grid,        \* per invocation: the rows and cols chosen for the sprite sheet
  tiled,       \* per invocation: the tiling runs launched, each with its
               \* tile filter and the frame indices the engine reads
  window,      \* per invocation: safeStart, safeEnd and safeDuration of the
               \* sprite stage, in twentieths of a millisecond
  req,         \* per request: the request the handler received
  res,         \* per request: the HTTP response sent, and the step that failed
  env          \* the environment of the run: the source sizes there are,
               \* whether engine, storage and mkdir calls may fail by
               \* themselves (flaky), whether cleanup operations may (faulty)

vars == <<status, dirs, files, pc, oid, vpath, plan, variants, encoding,
          launched, upFiles, upState, upLog, upResult, outcome, wrote,
          raised, skipped, progress, fault, inputSeen, frames, manifest,
          frameTasks, grid, tiled, window, req, res, env>>

----------------------------------------------------------------------------
(* Bounds of the model *)

\* convertToHLS invocations in one behaviour
MaxInvocations == 2
\* .ts segments ffmpeg writes per tier
MaxSegments == 1
\* files in the tree handed to a stand-alone Upload Coordinator call
MaxTreeFiles == 6

Invocations == 1..MaxInvocations

\* job ids (all pass the handler's sanitizer); "a" is a substring of "ab"
Ids == {"a", "ab"}

\* the job ids the Status Register may get an entry for: "hls" is also the
\* name of the directory the HLS output roots live in
JobIds == Ids \cup {"hls"}

\* probed source sizes: below the catalog, one catalog tier, two catalog tiers
Sources == {<<640, 360>>, <<854, 480>>, <<1280, 720>>}

----------------------------------------------------------------------------
(* Strings *)

StartsWith(s, pre) ==
  Len(s) >= Len(pre) /\ SubSeq(s, 1, Len(pre)) = pre

EndsWith(s, suf) ==
  Len(s) >= Len(suf) /\ SubSeq(s, Len(s) - Len(suf) + 1, Len(s)) = suf

Includes(s, sub) ==
  \E k \in 1..(Len(s) - Len(sub) + 1) : SubSeq(s, k, k + Len(sub) - 1) = sub

\* String.prototype.replace(pat, ""), first occurrence only
RemoveFirst(s, pat) ==
  IF Includes(s, pat)
  THEN LET k == CHOOSE j \in 1..(Len(s) - Len(pat) + 1) :
                  /\ SubSeq(s, j, j + Len(pat) - 1) = pat
                  /\ \A m \in 1..(j - 1) : SubSeq(s, m, m + Len(pat) - 1) # pat
       IN SubSeq(s, 1, k - 1) \o SubSeq(s, k + Len(pat), Len(s))
  ELSE s

----------------------------------------------------------------------------
(* Paths and the filesystem *)

UPLOADS_DIR == <<"uploads">>

Join(p, name) == Append(p, name)

Parent(p) == SubSeq(p, 1, Len(p) - 1)

Basename(p) == p[Len(p)]

IsPrefix(p, q) == Len(p) <= Len(q) /\ SubSeq(q, 1, Len(p)) = p

Under(p, q) == IsPrefix(p, q) /\ p # q

Ancestors(p) == {SubSeq(p, 1, n) : n \in 1..Len(p)}

hlsOutputDirOf(id) == <<"uploads", "hls", id>>

outputDirOf(id) == <<"uploads", id>>

FS(d, f) == [dirs |-> d, files |-> f]

Exists(fs, p) == p \in fs.dirs \/ p \in fs.files

\* fs.mkdirSync(p, {recursive: true})
MkdirP(fs, p) == FS(fs.dirs \cup Ancestors(p), fs.files)

\* a write by the program or by an engine process: needs the directory
WriteFiles(fs, ps) ==
  FS(fs.dirs, fs.files \cup {p \in ps : Parent(p) \in fs.dirs})

Children(fs, d) == {p \in fs.dirs \cup fs.files : Len(p) = Len(d) + 1 /\ IsPrefix(d, p)}

NoFault == [stuck |-> {}, nolist |-> {}]

\* The cleanup operations that fail in one cleanup run: unlink or rmdir of a
\* path in stuck throws, readdir of a directory in nolist throws.
FaultChoices(cands) ==
  IF env.faulty
  THEN {NoFault} \cup {[stuck |-> {p}, nolist |-> {}] : p \in cands}
                 \cup {[stuck |-> {}, nolist |-> {p}] : p \in cands}
  ELSE {NoFault}

RECURSIVE CleanupDirectory(_, _, _, _)
RECURSIVE CleanupItems(_, _, _)

\* the for-loop of cleanupDirectory over the directory's items
CleanupItems(fs, items, F) ==
  IF items = {} THEN fs
  ELSE LET item == CHOOSE x \in items : TRUE
           fs1 == IF item \in fs.dirs
                  THEN CleanupDirectory(fs, item, TRUE, F)
                  ELSE IF item \in F.stuck
                       THEN fs                      \* unlinkSync threw: logged
                       ELSE FS(fs.dirs, fs.files \ {item})
       IN CleanupItems(fs1, items \ {item}, F)

\* cleanupDirectory(dirPath, removeDir): never throws
CleanupDirectory(fs, dirPath, removeDir, F) ==
  IF ~Exists(fs, dirPath) THEN fs
  ELSE IF dirPath \in fs.files \/ dirPath \in F.nolist
       THEN fs                                      \* readdirSync threw: logged
       ELSE LET fs1 == CleanupItems(fs, Children(fs, dirPath), F)
            IN IF removeDir /\ Children(fs1, dirPath) = {} /\ dirPath \notin F.stuck
               THEN FS(fs1.dirs \ {dirPath}, fs1.files)
               ELSE fs1                             \* rmdirSync threw: logged

\* The first half of the success-path cleanup, up to the one-second wait:
\* unlink the source, then clean both job directories.  threw = the inner
\* try was left through its catch.
CleanupAfterUpload(fs, videoPath, objectId, F) ==
  IF Exists(fs, videoPath) /\ (videoPath \in F.stuck \/ videoPath \in fs.dirs)
  THEN [fs |-> fs, threw |-> TRUE]
  ELSE LET fs1 == FS(fs.dirs, fs.files \ {videoPath})
           fs2 == CleanupDirectory(fs1, hlsOutputDirOf(objectId), TRUE, F)
           fs3 == CleanupDirectory(fs2, outputDirOf(objectId), TRUE, F)
       IN [fs |-> fs3, threw |-> FALSE]

RECURSIVE SweepTopLevel(_, _, _, _)

\* the loop over readdirSync(UPLOADS_DIR): files whose name starts with the id
SweepTopLevel(fs, items, objectId, F) ==
  IF items = {} THEN [fs |-> fs, threw |-> FALSE]
  ELSE LET item == CHOOSE x \in items : TRUE
       IN IF StartsWith(Basename(item), objectId) /\ item \in fs.files
          THEN IF item \in F.stuck
               THEN [fs |-> fs, threw |-> TRUE]
               ELSE SweepTopLevel(FS(fs.dirs, fs.files \ {item}),
                                  items \ {item}, objectId, F)
          ELSE SweepTopLevel(fs, items \ {item}, objectId, F)

RECURSIVE checkForRemainingFiles(_, _, _, _)
RECURSIVE CheckItems(_, _, _, _)

CheckItems(fs, items, objectId, F) ==
  IF items = {} THEN [fs |-> fs, threw |-> FALSE]
  ELSE LET item == CHOOSE x \in items : TRUE
           r == IF item \in fs.dirs
                THEN IF ~Includes(Basename(item), objectId) /\ Basename(item) # "hls"
                     THEN [fs |-> fs, threw |-> FALSE]
                     ELSE checkForRemainingFiles(fs, item, objectId, F)
                ELSE IF Includes(Basename(item), objectId) /\ item \notin F.stuck
                     THEN [fs |-> FS(fs.dirs, fs.files \ {item}), threw |-> FALSE]
                     ELSE [fs |-> fs, threw |-> FALSE]
       IN IF r.threw THEN r ELSE CheckItems(r.fs, items \ {item}, objectId, F)

\* the recursive residual sweep: a readdirSync that throws leaves it
checkForRemainingFiles(fs, dir, objectId, F) ==
  IF ~Exists(fs, dir) THEN [fs |-> fs, threw |-> FALSE]
  ELSE IF dir \in fs.files \/ dir \in F.nolist
       THEN [fs |-> fs, threw |-> TRUE]
       ELSE CheckItems(fs, Children(fs, dir), objectId, F)

\* The second half of the success-path cleanup, after the wait.
CleanupSweep(fs, objectId, F) ==
  IF UPLOADS_DIR \notin fs.dirs \/ UPLOADS_DIR \in F.nolist
  THEN [fs |-> fs, threw |-> TRUE]
  ELSE LET top == SweepTopLevel(fs, Children(fs, UPLOADS_DIR), objectId, F)
       IN IF top.threw THEN top
          ELSE checkForRemainingFiles(top.fs, UPLOADS_DIR, objectId, F)

\* a finally block that forgets the HLS directory
FinalCleanupScratchOnly(fs, objectId, F) ==
  CleanupDirectory(fs, outputDirOf(objectId), TRUE, F)

\* The finally block of convertToHLS.
FinalCleanup(fs, objectId, F) ==
  LET fs1 == CleanupDirectory(fs, outputDirOf(objectId), TRUE, F)
  IN CleanupDirectory(fs1, hlsOutputDirOf(objectId), TRUE, F)

----------------------------------------------------------------------------
(* Resolution Planner *)

\* consts/video.ts, in insertion order
resolutionTargets ==
  << [name |-> "2160p", width |-> 3840, height |-> 2160, baseBitrate |-> 15000, crf |-> 20],
     [name |-> "1440p", width |-> 2560, height |-> 1440, baseBitrate |-> 8000, crf |-> 21],
     [name |-> "1080p", width |-> 1920, height |-> 1080, baseBitrate |-> 5000, crf |-> 22],
     [name |-> "720p", width |-> 1280, height |-> 720, baseBitrate |-> 2500, crf |-> 23],
     [name |-> "480p", width |-> 854, height |-> 480, baseBitrate |-> 1000, crf |-> 23] >>

RECURSIVE GCD(_, _)
GCD(a, b) == IF b = 0 THEN a ELSE GCD(b, a % b)

\* Math.round(n / d) for n >= 0, d > 0: halves round up
RoundDiv(n, d) == (n \div d) + (IF 2 * (n % d) >= d THEN 1 ELSE 0)

\* A complexity factor is a ratio [num, den]; 1.0 is the default.
DefaultComplexity == [num |-> 1, den |-> 1]

\* a bitrate truncated instead of rounded
calculateBitrateFloor(width, height, baseBitrate, complexityFactor) ==
  LET g == GCD(width * height, 1920 * 1080)
      n == baseBitrate * ((width * height) \div g) * complexityFactor.num
      d == ((1920 * 1080) \div g) * complexityFactor.den
  IN ToString(n \div d) \o "k"

\* calculateBitrate: round(baseBitrate * (width*height)/(1920*1080) * factor)
\* followed by "k".  The product is taken exactly; the ratio is reduced first
\* so that no intermediate value leaves the 32-bit range.
calculateBitrate(width, height, baseBitrate, complexityFactor) ==
  LET g == GCD(width * height, 1920 * 1080)
      n == baseBitrate * ((width * height) \div g) * complexityFactor.num
      d == ((1920 * 1080) \div g) * complexityFactor.den
  IN ToString(RoundDiv(n, d)) \o "k"

RECURSIVE InsertByPixels(_, _)
\* stable insertion into a sequence sorted by descending pixel count
InsertByPixels(sorted, t) ==
  IF sorted = << >> THEN <<t>>
  ELSE IF Head(sorted).width * Head(sorted).height >= t.width * t.height
       THEN <<Head(sorted)>> \o InsertByPixels(Tail(sorted), t)
       ELSE <<t>> \o sorted

RECURSIVE SortByPixelsDesc(_)
\* Array.prototype.sort with the comparator b.width*b.height - a.width*a.height
SortByPixelsDesc(ts) ==
  IF ts = << >> THEN << >>
  ELSE InsertByPixels(SortByPixelsDesc(SubSeq(ts, 1, Len(ts) - 1)), ts[Len(ts)])

TargetNamed(n) == CHOOSE t \in {resolutionTargets[k] : k \in DOMAIN resolutionTargets} : t.name = n

\* a fallback that takes the smallest catalog tier as its reference
FallbackBaseBitrateSmallest == TargetNamed("480p").baseBitrate

\* resolutionTargets['720p'].baseBitrate
FallbackBaseBitrate == TargetNamed("720p").baseBitrate

\* a filter that lets every catalog tier through
FitsAlways(t, sourcePixels) == TRUE

\* targetPixels <= sourcePixels
Fits(t, sourcePixels) == t.width * t.height <= sourcePixels

\* a fallback snapped to the smallest catalog tier's dimensions
FallbackTierSnapped(originalWidth, originalHeight, contentComplexity) ==
  [width |-> 854, height |-> 480,
   bitrate |-> calculateBitrate(854, 480, FallbackBaseBitrate, contentComplexity),
   crf |-> 23,
   name |-> "480p (source)"]

\* the tier pushed when no catalog tier fits
FallbackTier(originalWidth, originalHeight, contentComplexity) ==
  [width |-> originalWidth, height |-> originalHeight,
   bitrate |-> calculateBitrate(originalWidth, originalHeight,
                                FallbackBaseBitrate, contentComplexity),
   crf |-> 23,
   name |-> ToString(originalHeight) \o "p (source)"]

getDynamicResolutions(originalWidth, originalHeight, contentComplexity) ==
  LET sourcePixels == originalWidth * originalHeight
      possibleTargets == SortByPixelsDesc(resolutionTargets)
      Tier(t) == [width |-> t.width, height |-> t.height,
                  bitrate |-> calculateBitrate(t.width, t.height, t.baseBitrate,
                                               contentComplexity),
                  crf |-> t.crf, name |-> t.name]
      fits == SelectSeq(possibleTargets, LAMBDA t : Fits(t, sourcePixels))
      resolutions == [k \in DOMAIN fits |-> Tier(fits[k])]
  IN IF Len(resolutions) = 0
     THEN << FallbackTier(originalWidth, originalHeight, contentComplexity) >>
     ELSE resolutions

\* name.replace(' (source)', ''): the tier's directory under the HLS root
TierDirName(name) == RemoveFirst(name, " (source)")

TierDir(objectId, name) == Join(hlsOutputDirOf(objectId), TierDirName(name))

\* what a finished encode leaves in the tier directory
TierFiles(objectId, name) ==
  {Join(TierDir(objectId, name), "index.m3u8")}
    \cup {Join(TierDir(objectId, name), "index" \o ToString(n) \o ".ts") : n \in 0..(MaxSegments - 1)}

VariantOf(t) ==
  [width |-> t.width, height |-> t.height, bitrate |-> t.bitrate,
   resolution |-> ToString(t.width) \o "x" \o ToString(t.height),
   playlist |-> TierDirName(t.name) \o "/index.m3u8"]

masterPlaylistPathOf(objectId) == Join(hlsOutputDirOf(objectId), "master.m3u8")

DigitValue(c) ==
  CASE c = "0" -> 0 [] c = "1" -> 1 [] c = "2" -> 2 [] c = "3" -> 3 [] c = "4" -> 4
    [] c = "5" -> 5 [] c = "6" -> 6 [] c = "7" -> 7 [] c = "8" -> 8 [] c = "9" -> 9
    [] OTHER -> 0 - 1

RECURSIVE ParseDigits(_, _)
\* the value of the decimal digits s starts with, after the value acc
ParseDigits(s, acc) ==
  IF Len(s) = 0 \/ DigitValue(SubSeq(s, 1, 1)) < 0 THEN acc
  ELSE ParseDigits(SubSeq(s, 2, Len(s)), 10 * acc + DigitValue(SubSeq(s, 1, 1)))

\* parseInt(s) for a string that starts with a digit
ParseInt(s) == ParseDigits(s, 0)

\* a bandwidth left in kilobits
BandwidthInKilobits(bitrate) == ParseInt(bitrate)

\* parseInt(variant.bitrate) * 1000
Bandwidth(bitrate) == ParseInt(bitrate) * 1000

RECURSIVE masterPlaylistLines(_)
\* the lines of `#EXTM3U\n${masterPlaylistContent}`
masterPlaylistLines(variantPlaylists) ==
  IF variantPlaylists = << >> THEN <<"#EXTM3U">>
  ELSE LET n == Len(variantPlaylists)
           variant == variantPlaylists[n]
       IN masterPlaylistLines(SubSeq(variantPlaylists, 1, n - 1))
            \o << "#EXT-X-STREAM-INF:BANDWIDTH=" \o ToString(Bandwidth(variant.bitrate))
                    \o ",RESOLUTION=" \o variant.resolution,
                  variant.playlist >>

----------------------------------------------------------------------------
(* Upload Coordinator helpers *)

\* p-limit's concurrency
UploadConcurrency == 5

RECURSIVE SetToSeq(_)
SetToSeq(S) ==
  IF S = {} THEN << >>
  ELSE LET x == CHOOSE y \in S : TRUE IN <<x>> \o SetToSeq(S \ {x})

\* readDir: every regular file under dir, at any depth, in directory order
readDir(fs, dir) == SetToSeq({f \in fs.files : Under(dir, f)})

RECURSIVE JoinSlash(_)
JoinSlash(p) ==
  IF Len(p) = 0 THEN ""
  ELSE IF Len(p) = 1 THEN p[1]
       ELSE p[1] \o "/" \o JoinSlash(Tail(p))

\* path.relative(hlsOutputDir, filePath)
RelativePath(root, filePath) == JoinSlash(SubSeq(filePath, Len(root) + 1, Len(filePath)))

S3Key(root, objectId, filePath) ==
  "courses/chapters/videos/" \o objectId \o "/" \o RelativePath(root, filePath)

\* the content type chosen by .m3u8 anywhere in the path
ContentTypeByInclusion(filePath) ==
  IF Includes(JoinSlash(filePath), ".m3u8") THEN "application/x-mpegURL" ELSE "video/MP2T"

\* filePath.endsWith('.m3u8') ? 'application/x-mpegURL' : 'video/MP2T'
ContentType(filePath) ==
  IF EndsWith(JoinSlash(filePath), ".m3u8") THEN "application/x-mpegURL" ELSE "video/MP2T"

\* the params of one s3.upload call
UploadParams(root, objectId, filePath) ==
  [file |-> filePath, Key |-> S3Key(root, objectId, filePath),
   ContentType |-> ContentType(filePath)]

\* tasks started without a limit
NextToStartUnlimited(st, free) == {k \in DOMAIN st : st[k] = "queued"}

\* p-limit: the queued tasks that start when `free` slots are free, in
\* queue order
NextToStart(st, free) ==
  LET queued == {k \in DOMAIN st : st[k] = "queued"}
  IN {k \in queued : Cardinality({j \in queued : j < k}) < free}

ActiveCount(st) == Cardinality({k \in DOMAIN st : st[k] = "active"})

----------------------------------------------------------------------------
(* Sprite sheet geometry *)

\* durations ffprobe reports for a readable source
Durations == {120}

\* durations of the sources handed to generateSpriteSheet by itself: the
\* documented examples, both thresholds and a one-second clip
SpriteDurations == {1, 120, 300, 400, 600, 720, 900}

\* frames whose extraction fails in the "several" pattern
MaxFailing == 3

\* which extractions fail: none, one frame, several frames, all but one, all
FailurePatterns == {"none", "one", "several", "allButOne", "all"}

\* the positions (frame index + 1) of the n frames that fail under a pattern
Failing(pattern, n) ==
  CASE pattern = "none" -> {}
    [] pattern = "one" -> {8}
    [] pattern = "several" -> 1..(MaxFailing - 1) \cup {n}
    [] pattern = "allButOne" -> (1..n) \ {2}
    [] pattern = "all" -> 1..n

\* the orders in which the engine processes of one batch end
Orders == {"ascending", "descending", "evensFirst"}

\* the process among S that ends next under an order
NextFrame(S, order) ==
  LET lowest(T) == CHOOSE k \in T : \A j \in T : k <= j
      highest(T) == CHOOSE k \in T : \A j \in T : k >= j
      evens == {k \in S : (k - 1) % 2 = 0}
  IN CASE order = "ascending" -> lowest(S)
       [] order = "descending" -> highest(S)
       [] order = "evensFirst" -> IF evens # {} THEN lowest(evens) ELSE lowest(S)

\* a grid rule without the branch for sources over ten minutes
SpriteGridTwoSizes(duration) ==
  IF duration > 300 THEN [rows |-> 6, cols |-> 8] ELSE [rows |-> 5, cols |-> 5]

\* a grid rule whose thresholds include 300 and 600 seconds
SpriteGridInclusive(duration) ==
  IF duration >= 600 THEN [rows |-> 8, cols |-> 10]
  ELSE IF duration >= 300 THEN [rows |-> 6, cols |-> 8]
       ELSE [rows |-> 5, cols |-> 5]

\* rows and cols by duration
SpriteGrid(duration) ==
  IF duration > 600 THEN [rows |-> 8, cols |-> 10]
  ELSE IF duration > 300 THEN [rows |-> 6, cols |-> 8]
       ELSE [rows |-> 5, cols |-> 5]

numThumbnails(duration) == SpriteGrid(duration).rows * SpriteGrid(duration).cols

\* index.toString().padStart(3, '0')
PadStart3(n) ==
  LET t == ToString(n)
  IN IF Len(t) >= 3 THEN t ELSE IF Len(t) = 2 THEN "0" \o t ELSE "00" \o t

framesDirOf(objectId) == Join(outputDirOf(objectId), "frames_temp")

FramePath(objectId, index) ==
  Join(framesDirOf(objectId), "frame-" \o PadStart3(index) \o ".jpg")

\* The frames the tiling reads through the pattern frame-%03d.jpg: the
\* image sequence starts at the first index in 0..4 that exists and runs to
\* the first gap.
TileInput(fs, objectId) ==
  LET there(k) == FramePath(objectId, k) \in fs.files
      inDir == {f \in fs.files : Parent(f) = framesDirOf(objectId)}
      starts == {k \in 0..4 : there(k)}
  IN IF starts = {} THEN {}
     ELSE LET first == CHOOSE k \in starts : \A j \in starts : k <= j
          IN {k \in first..(first + Cardinality(inDir)) : \A j \in first..k : there(j)}

spriteSheetPathOf(objectId) ==
  Join(outputDirOf(objectId), objectId \o "_spritesheet.jpg")

thumbnailPathOf(objectId) ==
  Join(outputDirOf(objectId), objectId \o "_thumbnail.jpg")

\* fs.rmSync(p, {recursive: true, force: true})
RmRecursive(fs, p) ==
  FS({d \in fs.dirs : ~IsPrefix(p, d)}, {f \in fs.files : ~IsPrefix(p, f)})

\* the window the timestamps are spread over, safeEnd - safeStart, in
\* hundredths of a second for a duration in seconds
safeDuration(duration) ==
  LET safeStart == IF 5 * duration < 200 THEN 5 * duration ELSE 200
      safeEnd == IF 95 * duration > 100 * duration - 200
                 THEN 95 * duration ELSE 100 * duration - 200
  IN safeEnd - safeStart

\* a window with the smaller and the larger of the two candidates exchanged
SafeWindowExchanged(ms) ==
  LET safeStart == IF ms > 40000 THEN ms ELSE 40000
      safeEnd == IF 19 * ms < 20 * ms - 40000 THEN 19 * ms ELSE 20 * ms - 40000
  IN [safeStart |-> safeStart, safeEnd |-> safeEnd, safeDuration |-> safeEnd - safeStart]

\* safeStart = Math.min(duration * 0.05, 2), safeEnd = Math.max(duration *
\* 0.95, duration - 2) and safeDuration = safeEnd - safeStart, for a duration
\* of ms milliseconds, in twentieths of a millisecond (2 s = 40000)
SafeWindow(ms) ==
  LET safeStart == IF ms < 40000 THEN ms ELSE 40000
      safeEnd == IF 19 * ms > 20 * ms - 40000 THEN 19 * ms ELSE 20 * ms - 40000
  IN [safeStart |-> safeStart, safeEnd |-> safeEnd, safeDuration |-> safeEnd - safeStart]

\* a finally block that deletes the frames and leaves their directory
RemoveFramesDirFilesOnly(fs, framesDir) ==
  FS(fs.dirs, {f \in fs.files : ~IsPrefix(framesDir, f)})

\* the finally block of the inner try: the frame directory is removed if it
\* exists
RemoveFramesDir(fs, framesDir) ==
  IF framesDir \in fs.dirs THEN RmRecursive(fs, framesDir) ELSE fs

----------------------------------------------------------------------------
(* Errors *)

NoError == [stage |-> "none", err |-> ""]

\* getVideoResolution wraps the ffprobe error
GetVideoResolutionError(msg) == "Failed to get video metadata: " \o msg

NoVideoStreamError == "No video stream found in the file"

\* the error a failed upload task throws (the task's catch rethrows it)
UploadError(key) == "upload failed: " \o key

\* an outer catch that throws a new error with a prefixed message
CatchWraps(err) == "HLS conversion failed: " \o err

\* the outer catch of convertToHLS: throw err
CatchRethrow(err) == err

Pending == [kind |-> "pending", err |-> ""]

\* the register written 'completed' before the upload and 'uploading' after
PhaseAtReordered(point) ==
  CASE point = "start" -> "converting"
    [] point = "upload" -> "completed"
    [] point = "done" -> "uploading"
    [] point = "catch" -> "error"

\* The values convertToHLS writes to the register, by the point of the write.
PhaseAt(point) ==
  CASE point = "start" -> "converting"
    [] point = "upload" -> "uploading"
    [] point = "done" -> "completed"
    [] point = "catch" -> "error"

\* a register that keeps an entry once it holds completed or error
conversionStatusSetOnce(register, objectId, value) ==
  IF register[objectId] \in {"completed", "error"}
  THEN register
  ELSE [register EXCEPT ![objectId] = value]

\* conversionStatus.set(objectId, value)
conversionStatusSet(register, objectId, value) ==
  [register EXCEPT ![objectId] = value]

\* what a catch block throws when it throws nothing
NoThrow == ""

\* a catch block that throws what it caught
BestEffortCatchRethrows(err) == err

\* The catch blocks around createThumbnail with its upload and around
\* generateSpriteSheet: the error is logged and nothing is thrown.
BestEffortCatch(err) == NoThrow

\* a cleanup catch block that throws what it caught
CleanupCatchRethrows(err) == err

\* The catch block around the success-path cleanup: logged, nothing thrown.
CleanupCatch(err) == NoThrow

\* an error handler that resolves the promise
EncodeAlwaysResolves(ok) == TRUE

\* a task catch block that logs and throws nothing
TaskCatchSwallows(err) == NoThrow

\* The catch block of one upload task: logged, and the error thrown again.
TaskCatch(err) == err

\* The promise around one tier's encode: resolved by the end event,
\* rejected by the error event.
EncodeResolves(ok) == ok

----------------------------------------------------------------------------
(* State *)

fsVars == <<dirs, files>>
upVars == <<upFiles, upState, upLog, upResult>>
encVars == <<plan, variants, encoding, launched>>
spriteVars == <<frameTasks, grid, tiled, window>>

NotCalled == [kind |-> "none", err |-> ""]

\* no safe window computed yet
NoWindow == [safeStart |-> 0, safeEnd |-> 0, safeDuration |-> 0]

\* no request received yet
NoRequest == [given |-> FALSE, objectId |-> ""]

\* no response sent yet
NoResponse == [code |-> 0, failed |-> ""]

\* The state in environment e with the files fs on disk and every
\* invocation i at pc0[i].
InitState(e, fs, pc0, id0) ==
  /\ env = e
  /\ status = [id \in JobIds |-> "none"]
  /\ dirs = fs.dirs
  /\ files = fs.files
  /\ pc = pc0
  /\ oid = [i \in Invocations |-> IF pc0[i] = "off" THEN "" ELSE id0]
  /\ vpath = [i \in Invocations |-> << >>]
  /\ plan = [i \in Invocations |-> << >>]
  /\ variants = [i \in Invocations |-> << >>]
  /\ encoding = [i \in Invocations |-> {}]
  /\ launched = [i \in Invocations |-> << >>]
  /\ upFiles = [i \in Invocations |-> << >>]
  /\ upState = [i \in Invocations |-> << >>]
  /\ upLog = [i \in Invocations |-> << >>]
  /\ upResult = [i \in Invocations |-> NotCalled]
  /\ outcome = [i \in Invocations |-> Pending]
  /\ wrote = [i \in Invocations |-> << >>]
  /\ raised = [i \in Invocations |-> NoError]
  /\ skipped = [i \in Invocations |-> {}]
  /\ progress = [i \in Invocations |-> {}]
  /\ fault = [i \in Invocations |-> FALSE]
  /\ inputSeen = [i \in Invocations |-> FALSE]
  /\ frames = [i \in Invocations |-> 0]
  /\ manifest = [i \in Invocations |-> << >>]
  /\ frameTasks = [i \in Invocations |-> << >>]
  /\ grid = [i \in Invocations |-> [rows |-> 0, cols |-> 0]]
  /\ tiled = [i \in Invocations |-> << >>]
  /\ window = [i \in Invocations |-> NoWindow]
  /\ req = [i \in Invocations |-> NoRequest]
  /\ res = [i \in Invocations |-> NoResponse]

\* one invocation, any source size, cleanup operations may fail
Init ==
  InitState([flaky |-> TRUE, faulty |-> TRUE, sizes |-> Sources, durations |-> Durations],
            FS({UPLOADS_DIR}, {}),
            [i \in Invocations |-> IF i = 1 THEN "idle" ELSE "off"], "")

\* overlapping invocations; nothing fails by itself, only for what another
\* invocation did to the files
InitOverlap ==
  InitState([flaky |-> FALSE, faulty |-> FALSE, sizes |-> {<<640, 360>>},
             durations |-> Durations],
            FS({UPLOADS_DIR}, {}), [i \in Invocations |-> "idle"], "")

\* the source paths a caller passes: the handler's download target inside the
\* job's scratch directory, or a file outside the working directories
VideoPaths(id) ==
  {Join(outputDirOf(id), "original.mp4"), <<"media", id \o ".mp4">>}

\* The caller's preparation: the object folder exists and the source has
\* been downloaded to filePath.  Invocations are numbered in call order.
Download(i, id, videoPath) ==
  /\ pc[i] = "idle"
  /\ \A j \in Invocations : j < i => pc[j] # "idle"
  /\ pc' = [pc EXCEPT ![i] = "called"]
  /\ oid' = [oid EXCEPT ![i] = id]
  /\ vpath' = [vpath EXCEPT ![i] = videoPath]
  /\ dirs' = dirs \cup Ancestors(Parent(videoPath))
  /\ files' = files \cup {videoPath}
  /\ UNCHANGED <<status, encVars, upVars, outcome, wrote, raised, skipped,
                 progress, fault, inputSeen, frames, manifest, spriteVars, req, res>>
  /\ UNCHANGED env

\* the paths whose cleanup operations may fail
FaultCands(i, fs) ==
  {p \in {vpath[i], hlsOutputDirOf(oid[i]), outputDirOf(oid[i]),
          masterPlaylistPathOf(oid[i]), UPLOADS_DIR} : Exists(fs, p)}

\* The outer catch and the finally block: the register gets 'error', both job
\* directories are cleaned, and the promise rejects with the error caught.
\* fs is the filesystem and w the phases written when the error was thrown.
Fatal(i, fs, w, stage, err) ==
  \E F \in FaultChoices(FaultCands(i, fs)) :
    LET fin == FinalCleanup(fs, oid[i], F)
    IN /\ status' = conversionStatusSet(status, oid[i], PhaseAt("catch"))
       /\ wrote' = [wrote EXCEPT ![i] = Append(w, PhaseAt("catch"))]
       /\ dirs' = fin.dirs
       /\ files' = fin.files
       /\ raised' = [raised EXCEPT ![i] = [stage |-> stage, err |-> err]]
       /\ outcome' = [outcome EXCEPT ![i] = [kind |-> "rejected", err |-> CatchRethrow(err)]]
       /\ pc' = [pc EXCEPT ![i] = "settled"]
       /\ fault' = [fault EXCEPT ![i] = @ \/ F # NoFault]

\* a best-effort stage failed: logged, and the pipeline goes on
Skip(i, stage) == skipped' = [skipped EXCEPT ![i] = @ \cup {stage}]

\* getVideoResolution is called: ffprobe is launched on the source
ToProbe(i, fs) ==
  /\ pc' = [pc EXCEPT ![i] = "probe"]
  /\ inputSeen' = [inputSeen EXCEPT ![i] = vpath[i] \in fs.files]

\* createThumbnail, its upload or generateSpriteSheet threw err with fs on
\* disk: the catch block around the stage decides what goes on.  After the
\* thumbnail comes the sprite sheet, after the sprite sheet the probe.
BestEffortFailed(i, fs, stage, err) ==
  IF BestEffortCatch(err) = NoThrow
  THEN /\ Skip(i, stage)
       /\ dirs' = fs.dirs
       /\ files' = fs.files
       /\ IF stage = "sprite"
          THEN ToProbe(i, fs)
          ELSE /\ pc' = [pc EXCEPT ![i] = "sprite"]
               /\ inputSeen' = [inputSeen EXCEPT ![i] = FALSE]
       /\ UNCHANGED <<status, wrote, raised, outcome, fault>>
  ELSE /\ Fatal(i, fs, wrote[i], stage, BestEffortCatch(err))
       /\ UNCHANGED <<skipped, inputSeen>>

\* a step of a best-effort stage went well
BestEffortStep(i, fs, to, seen) ==
  /\ dirs' = fs.dirs
  /\ files' = fs.files
  /\ pc' = [pc EXCEPT ![i] = to]
  /\ inputSeen' = [inputSeen EXCEPT ![i] = seen]
  /\ UNCHANGED <<status, wrote, raised, outcome, fault, skipped, req, res>>

\* convertToHLS up to its first await: the register entry, the HLS root, and
\* createThumbnail up to its ffprobe.
ConvertStart(i) ==
  /\ pc[i] = "called"
  /\ \E mkHls \in BOOLEAN, mkOut \in BOOLEAN :
       LET id == oid[i]
           w == <<PhaseAt("start")>>
           fs0 == FS(dirs, files)
           hlsThere == Exists(fs0, hlsOutputDirOf(id))
       IN IF ~hlsThere /\ ~mkHls
          THEN /\ env.flaky
               /\ Fatal(i, fs0, w, "setup", "EACCES: mkdir")
               /\ UNCHANGED <<skipped, inputSeen>>
          ELSE LET fs1 == IF hlsThere THEN fs0 ELSE MkdirP(fs0, hlsOutputDirOf(id))
                   outThere == Exists(fs1, outputDirOf(id))
                   fs2 == IF outThere \/ ~mkOut THEN fs1 ELSE MkdirP(fs1, outputDirOf(id))
                   probing == (outThere \/ mkOut) /\ Exists(fs2, vpath[i])
                   esc == BestEffortCatch("Input file not found")
               IN /\ mkOut \/ env.flaky
                  /\ IF ~probing /\ esc # NoThrow
                     THEN /\ Fatal(i, fs2, w, "thumbnail", esc)
                          /\ UNCHANGED <<skipped, inputSeen>>
                     ELSE /\ status' = conversionStatusSet(status, id, PhaseAt("start"))
                          /\ wrote' = [wrote EXCEPT ![i] = w]
                          /\ dirs' = fs2.dirs
                          /\ files' = fs2.files
                          /\ pc' = [pc EXCEPT ![i] =
                                      IF probing THEN "thumbProbe" ELSE "sprite"]
                          /\ IF probing THEN UNCHANGED skipped ELSE Skip(i, "thumbnail")
                          /\ inputSeen' = [inputSeen EXCEPT ![i] = probing]
                          /\ UNCHANGED <<raised, outcome, fault>>
  /\ UNCHANGED <<oid, vpath, encVars, upVars, progress, frames, manifest, spriteVars, req, res>>
  /\ UNCHANGED env

\* createThumbnail: getDuration settles; on success the extraction is launched
ThumbProbe(i) ==
  /\ pc[i] = "thumbProbe"
  /\ \E ok \in BOOLEAN :
       /\ ok => inputSeen[i]
       /\ ~ok => env.flaky \/ ~inputSeen[i]
       /\ IF ok
          THEN BestEffortStep(i, FS(dirs, files), "thumbExtract", vpath[i] \in files)
          ELSE BestEffortFailed(i, FS(dirs, files), "thumbnail", "ffprobe failed")
  /\ UNCHANGED <<oid, vpath, encVars, upVars, progress, frames, manifest, spriteVars, req, res>>
  /\ UNCHANGED env

\* createThumbnail: the extraction ends; the thumbnail must be on disk, and
\* then its upload is started
ThumbExtract(i) ==
  /\ pc[i] = "thumbExtract"
  /\ \E ok \in BOOLEAN :
       LET fs0 == FS(dirs, files)
           fs1 == IF ok THEN WriteFiles(fs0, {thumbnailPathOf(oid[i])}) ELSE fs0
           made == ok /\ thumbnailPathOf(oid[i]) \in fs1.files
       IN /\ ok => inputSeen[i]
          /\ ~ok => env.flaky \/ ~inputSeen[i]
          /\ IF made
             THEN BestEffortStep(i, fs1, "thumbUpload", FALSE)
             ELSE BestEffortFailed(i, fs1, "thumbnail", "Thumbnail was not created")
  /\ UNCHANGED <<oid, vpath, encVars, upVars, progress, frames, manifest, spriteVars, req, res>>
  /\ UNCHANGED env

\* the thumbnail's s3.upload settles
ThumbUpload(i) ==
  /\ pc[i] = "thumbUpload"
  /\ \E ok \in BOOLEAN :
       /\ ~ok => env.flaky \/ thumbnailPathOf(oid[i]) \notin files
       /\ IF ok
          THEN BestEffortStep(i, FS(dirs, files), "sprite", FALSE)
          ELSE BestEffortFailed(i, FS(dirs, files), "thumbnailUpload",
                                "thumbnail upload failed")
  /\ UNCHANGED <<oid, vpath, encVars, upVars, progress, frames, manifest, spriteVars, req, res>>
  /\ UNCHANGED env

\* generateSpriteSheet up to its ffprobe
SpriteStart(i) ==
  /\ pc[i] = "sprite"
  /\ \E mkOut \in BOOLEAN :
       LET fs0 == FS(dirs, files)
           outThere == Exists(fs0, outputDirOf(oid[i]))
           fs1 == IF outThere \/ ~mkOut THEN fs0 ELSE MkdirP(fs0, outputDirOf(oid[i]))
           probing == (outThere \/ mkOut) /\ Exists(fs1, vpath[i])
       IN /\ mkOut \/ env.flaky
          /\ IF probing
             THEN BestEffortStep(i, fs1, "spriteProbe", TRUE)
             ELSE BestEffortFailed(i, fs1, "sprite", "Input file not found")
  /\ UNCHANGED <<oid, vpath, encVars, upVars, progress, frames, manifest, spriteVars, req, res>>
  /\ UNCHANGED env

\* generateSpriteSheet: getVideoInfo settles; the grid is chosen, the frame
\* directory made, the safe window computed and one extraction per timestamp
\* launched
SpriteProbe(i) ==
  /\ pc[i] = "spriteProbe"
  /\ \E probed \in BOOLEAN, r \in {0} \cup env.durations, mk \in BOOLEAN :
       LET fs0 == FS(dirs, files)
           dirThere == Exists(fs0, framesDirOf(oid[i]))
           made == probed /\ r > 0 /\ (dirThere \/ mk)
           extracting == made /\ safeDuration(r) > 0
           fs1 == IF made THEN MkdirP(fs0, framesDirOf(oid[i])) ELSE fs0
       IN /\ probed => inputSeen[i]
          /\ ~probed => env.flaky \/ ~inputSeen[i]
          /\ (r = 0 \/ ~mk) => env.flaky
          /\ IF extracting
             THEN /\ BestEffortStep(i, fs1, "spriteFrames", vpath[i] \in files)
                  /\ frames' = [frames EXCEPT ![i] = numThumbnails(r)]
                  /\ grid' = [grid EXCEPT ![i] = SpriteGrid(r)]
                  /\ window' = [window EXCEPT ![i] = SafeWindow(1000 * r)]
                  /\ frameTasks' = [frameTasks EXCEPT ![i] =
                                      [k \in 1..numThumbnails(r) |-> "extracting"]]
             ELSE /\ BestEffortFailed(i, fs1, "sprite", "Invalid video duration")
                  /\ UNCHANGED <<frames, grid, frameTasks, window>>
  /\ UNCHANGED <<oid, vpath, encVars, upVars, progress, manifest, tiled, req, res>>
  /\ UNCHANGED env

\* a batch that also counts a frame whose blank replacement is still being
\* written as done
FramesAwaitedButBlanks(st) ==
  \A k \in DOMAIN st : st[k] \in {"resolved", "blanking"}

\* await Promise.all(framePromises) goes on when every frame promise resolved
FramesAwaited(st) ==
  \A k \in DOMAIN st : st[k] = "resolved"

\* an error handler that rejects the frame promise
OnExtractionErrorRejects(st, k) == [st EXCEPT ![k] = "rejected"]

\* the extraction's error handler: createBlankFrame is launched on the same
\* output path, and the frame promise stays pending
OnExtractionError(st, k) == [st EXCEPT ![k] = "blanking"]

\* fs.readdirSync(framesDir).filter(f => f.startsWith('frame-'))
ExtractedFrames(fs, dir) ==
  {f \in fs.files : Parent(f) = dir /\ StartsWith(Basename(f), "frame-")}

\* generateSpriteSheet after a frame promise settled, with the frame promises
\* at st and fs on disk: Promise.all rejects with the first rejection and
\* resolves with the last resolution; then the frames in the directory are
\* counted and the tiling launched.  Leaving the inner try removes the frame
\* directory.
FramesSettled(i, fs, st) ==
  LET dir == framesDirOf(oid[i])
      extractedFrames == ExtractedFrames(fs, dir)
  IN IF \E k \in DOMAIN st : st[k] = "rejected"
     THEN /\ BestEffortFailed(i, RemoveFramesDir(fs, dir), "sprite",
                              "Failed to create blank frame")
          /\ UNCHANGED tiled
     ELSE IF ~FramesAwaited(st)
     THEN /\ BestEffortStep(i, fs, "spriteFrames", inputSeen[i])
          /\ UNCHANGED tiled
     ELSE IF dir \in fs.dirs /\ Cardinality(extractedFrames) >= 2
     THEN /\ BestEffortStep(i, fs, "spriteTile", inputSeen[i])
          /\ tiled' = [tiled EXCEPT ![i] =
                         Append(@, [cols |-> grid[i].cols, rows |-> grid[i].rows,
                                    input |-> TileInput(fs, oid[i])])]
     ELSE /\ BestEffortFailed(i, RemoveFramesDir(fs, dir), "sprite",
                              "Not enough frames extracted")
          /\ UNCHANGED tiled

\* generateSpriteSheet as convertToHLS sees it: the whole frame batch in one
\* step, either every frame written or a frame promise rejected
SpriteFrames(i) ==
  /\ pc[i] = "spriteFrames"
  /\ \E all \in BOOLEAN :
       LET fs0 == FS(dirs, files)
           dir == framesDirOf(oid[i])
           fs1 == IF all
                  THEN WriteFiles(fs0, {FramePath(oid[i], k) : k \in 0..(frames[i] - 1)})
                  ELSE fs0
           st == [k \in DOMAIN frameTasks[i] |->
                    IF all THEN "resolved" ELSE IF k = 1 THEN "rejected" ELSE "extracting"]
       IN /\ ~all => env.flaky \/ dir \notin dirs
          /\ frameTasks' = [frameTasks EXCEPT ![i] = st]
          /\ FramesSettled(i, fs1, st)
  /\ UNCHANGED <<oid, vpath, encVars, upVars, progress, frames, manifest, grid, window, req, res>>
  /\ UNCHANGED env

\* one frame's extraction ends: the frame is on disk and its promise resolves
FrameEnd(i) ==
  /\ pc[i] = "spriteFrames"
  /\ LET st == frameTasks[i]
         extracting == {k \in DOMAIN st : st[k] = "extracting"}
     IN /\ extracting # {}
        /\ LET k == NextFrame(extracting, env.order)
               fs1 == WriteFiles(FS(dirs, files), {FramePath(oid[i], k - 1)})
               st1 == [st EXCEPT ![k] = "resolved"]
           IN /\ k \notin Failing(env.pattern, Len(st))
              /\ vpath[i] \in files
              /\ framesDirOf(oid[i]) \in dirs
              /\ frameTasks' = [frameTasks EXCEPT ![i] = st1]
              /\ FramesSettled(i, fs1, st1)
  /\ UNCHANGED <<oid, vpath, encVars, upVars, progress, frames, manifest, grid, window, req, res>>
  /\ UNCHANGED env

\* one frame's extraction fails
FrameError(i) ==
  /\ pc[i] = "spriteFrames"
  /\ LET st == frameTasks[i]
         extracting == {k \in DOMAIN st : st[k] = "extracting"}
     IN /\ extracting # {}
        /\ LET k == NextFrame(extracting, env.order)
               st1 == OnExtractionError(st, k)
           IN /\ \/ k \in Failing(env.pattern, Len(st))
                 \/ vpath[i] \notin files
                 \/ framesDirOf(oid[i]) \notin dirs
              /\ frameTasks' = [frameTasks EXCEPT ![i] = st1]
              /\ FramesSettled(i, FS(dirs, files), st1)
  /\ UNCHANGED <<oid, vpath, encVars, upVars, progress, frames, manifest, grid, window, req, res>>
  /\ UNCHANGED env

\* createBlankFrame settles for one frame: the black frame is on disk at the
\* frame's path and the frame promise resolves, or the frame promise rejects
BlankEnd(i) ==
  /\ pc[i] = "spriteFrames"
  /\ LET st == frameTasks[i]
         blanking == {k \in DOMAIN st : st[k] = "blanking"}
     IN /\ blanking # {}
        /\ \E ok \in BOOLEAN :
             LET k == NextFrame(blanking, env.order)
                 fs0 == FS(dirs, files)
                 fs1 == IF ok THEN WriteFiles(fs0, {FramePath(oid[i], k - 1)}) ELSE fs0
                 st1 == [st EXCEPT ![k] = IF ok THEN "resolved" ELSE "rejected"]
             IN /\ ok => framesDirOf(oid[i]) \in dirs
                /\ ~ok => env.flaky \/ framesDirOf(oid[i]) \notin dirs
                /\ frameTasks' = [frameTasks EXCEPT ![i] = st1]
                /\ FramesSettled(i, fs1, st1)
  /\ UNCHANGED <<oid, vpath, encVars, upVars, progress, frames, manifest, grid, window, req, res>>
  /\ UNCHANGED env

\* generateSpriteSheet: the tiling ends; the montage's upload is started
SpriteTile(i) ==
  /\ pc[i] = "spriteTile"
  /\ \E ok \in BOOLEAN :
       LET fs0 == FS(dirs, files)
       IN /\ ~ok => env.flaky \/ framesDirOf(oid[i]) \notin dirs
          /\ IF ok
             THEN BestEffortStep(i, WriteFiles(fs0, {spriteSheetPathOf(oid[i])}),
                                 "spriteUpload", inputSeen[i])
             ELSE BestEffortFailed(i, RemoveFramesDir(fs0, framesDirOf(oid[i])), "sprite",
                                   "sprite sheet generation failed")
  /\ UNCHANGED <<oid, vpath, encVars, upVars, progress, frames, manifest, spriteVars, req, res>>
  /\ UNCHANGED env

\* generateSpriteSheet: the montage's upload settles; the frame directory is
\* removed either way
SpriteUpload(i) ==
  /\ pc[i] = "spriteUpload"
  /\ \E ok \in BOOLEAN :
       LET fs1 == RemoveFramesDir(FS(dirs, files), framesDirOf(oid[i]))
       IN /\ ~ok => env.flaky \/ spriteSheetPathOf(oid[i]) \notin files
          /\ IF ok
             THEN /\ dirs' = fs1.dirs
                  /\ files' = fs1.files
                  /\ ToProbe(i, fs1)
                  /\ UNCHANGED <<status, wrote, raised, outcome, fault, skipped>>
             ELSE BestEffortFailed(i, fs1, "sprite", "sprite sheet upload failed")
  /\ UNCHANGED <<oid, vpath, encVars, upVars, progress, frames, manifest, spriteVars, req, res>>
  /\ UNCHANGED env

----------------------------------------------------------------------------
(* Mandatory stages *)

\* a loop that launches every tier without awaiting
NextTiersAllAtOnce(tiers, done) ==
  IF done = 0 THEN 1..Len(tiers) ELSE {}

\* The for-await loop over the plan: the tiers whose encode is launched once
\* `done` tiers have reported completion.
NextTiers(tiers, done) ==
  IF done < Len(tiers) THEN {done + 1} ELSE {}

RECURSIVE AscSeq(_)
\* a set of indices as an ascending sequence
AscSeq(S) ==
  IF S = {} THEN << >>
  ELSE LET m == CHOOSE x \in S : \A y \in S : x <= y
       IN <<m>> \o AscSeq(S \ {m})

\* One loop iteration up to its await: the tier directory is made and ffmpeg
\* launched.  enc is the set of encodes still in flight.
StartTiers(i, fs, tiers, next, enc, mk) ==
  LET tierDirs == {TierDir(oid[i], tiers[k].name) : k \in next}
      missing == {d \in tierDirs : ~Exists(fs, d)}
  IN IF missing # {} /\ ~mk
     THEN /\ env.flaky
          /\ Fatal(i, fs, wrote[i], "setup", "EACCES: mkdir")
          /\ encoding' = [encoding EXCEPT ![i] = enc]
          /\ UNCHANGED <<launched, inputSeen>>
     ELSE /\ dirs' = fs.dirs \cup UNION {Ancestors(d) : d \in missing}
          /\ files' = fs.files
          /\ encoding' = [encoding EXCEPT ![i] = enc \cup next]
          /\ launched' = [launched EXCEPT ![i] = @ \o AscSeq(next)]
          /\ inputSeen' = [inputSeen EXCEPT ![i] = vpath[i] \in fs.files]
          /\ pc' = [pc EXCEPT ![i] = "encode"]
          /\ UNCHANGED <<status, wrote, raised, outcome, fault>>

\* getVideoResolution settles; the plan is computed and the first tier's
\* encode launched
ResolutionProbe(i) ==
  /\ pc[i] = "probe"
  /\ \E kind \in {"error", "novideo", "ok"}, src \in env.sizes, mk \in BOOLEAN :
       LET fs0 == FS(dirs, files)
           tiers == getDynamicResolutions(src[1], src[2], DefaultComplexity)
       IN /\ kind # "error" => inputSeen[i]
          /\ kind = "error" => env.flaky \/ ~inputSeen[i]
          /\ kind = "novideo" => env.flaky
          /\ IF kind = "ok"
             THEN /\ plan' = [plan EXCEPT ![i] = tiers]
                  /\ StartTiers(i, fs0, tiers, NextTiers(tiers, 0), {}, mk)
             ELSE /\ Fatal(i, fs0, wrote[i], "probe",
                           IF kind = "error"
                           THEN GetVideoResolutionError("ffprobe failed")
                           ELSE NoVideoStreamError)
                  /\ UNCHANGED <<plan, encoding, launched, inputSeen>>
  /\ UNCHANGED <<oid, vpath, variants, upVars, skipped, progress, frames, manifest, spriteVars, req, res>>
  /\ UNCHANGED env

\* uploadHlsFilesToS3 up to its await of the p-limit import: the tree is
\* enumerated.  Yields the call's files, or ok = FALSE when readDir threw.
CoordinatorCall(fs, dir, rd) ==
  IF dir \in fs.dirs /\ rd
  THEN [ok |-> TRUE, files |-> readDir(fs, dir)]
  ELSE [ok |-> FALSE, files |-> << >>]

Queued(fileSeq) == [k \in DOMAIN fileSeq |-> "queued"]

\* After the last tier: the master manifest is written from the variants
\* vs, the register gets 'uploading' and the Upload Coordinator is called.
\* pr is the progress made so far.
WriteManifestAndUpload(i, fs, vs, pr, wr, rd) ==
  LET id == oid[i]
      hls == hlsOutputDirOf(id)
  IN IF ~wr \/ hls \notin fs.dirs
     THEN /\ Fatal(i, fs, wrote[i], "manifest", "ENOENT: open master.m3u8")
          /\ progress' = [progress EXCEPT ![i] = pr]
          /\ UNCHANGED <<upVars, manifest>>
     ELSE LET fs2 == WriteFiles(fs, {masterPlaylistPathOf(id)})
              w2 == Append(wrote[i], PhaseAt("upload"))
              call == CoordinatorCall(fs2, hls, rd)
          IN /\ progress' = [progress EXCEPT ![i] = pr \cup {"master", "uploadCalled"}]
             /\ manifest' = [manifest EXCEPT ![i] = Append(@, masterPlaylistLines(vs))]
             /\ IF call.ok
                THEN /\ status' = conversionStatusSet(status, id, PhaseAt("upload"))
                     /\ wrote' = [wrote EXCEPT ![i] = w2]
                     /\ dirs' = fs2.dirs
                     /\ files' = fs2.files
                     /\ upFiles' = [upFiles EXCEPT ![i] = call.files]
                     /\ upState' = [upState EXCEPT ![i] = Queued(call.files)]
                     /\ upLog' = [upLog EXCEPT ![i] = << >>]
                     /\ upResult' = [upResult EXCEPT ![i] = Pending]
                     /\ pc' = [pc EXCEPT ![i] = "uploadImport"]
                     /\ UNCHANGED <<raised, outcome, fault>>
                ELSE /\ Fatal(i, fs2, w2, "upload", "EACCES: scandir")
                     /\ upResult' = [upResult EXCEPT ![i] =
                                       [kind |-> "rejected", err |-> "EACCES: scandir"]]
                     /\ UNCHANGED <<upFiles, upState, upLog>>

\* An encode's end or error event.  On end the variant is pushed and the
\* loop goes on: the next tier, or the manifest and the upload.  An error
\* event is noted in progress as "encodeError".
EncodeEnd(i) ==
  /\ pc[i] = "encode"
  /\ \E k \in encoding[i], ok \in BOOLEAN, mk \in BOOLEAN, wr \in BOOLEAN, rd \in BOOLEAN :
       LET fs0 == FS(dirs, files)
           enc == encoding[i] \ {k}
           fs1 == WriteFiles(fs0, TierFiles(oid[i], plan[i][k].name))
           vs == Append(variants[i], VariantOf(plan[i][k]))
           next == NextTiers(plan[i], Len(vs))
           pr == IF ok THEN progress[i] ELSE progress[i] \cup {"encodeError"}
       IN /\ ok => inputSeen[i]
          /\ ~ok => \/ env.flaky
                    \/ ~inputSeen[i]
                    \/ TierDir(oid[i], plan[i][k].name) \notin dirs
          /\ (~wr \/ ~rd) => env.flaky
          /\ IF ~EncodeResolves(ok)
             THEN /\ Fatal(i, fs0, wrote[i], "encode", "ffmpeg exited with code 1")
                  /\ encoding' = [encoding EXCEPT ![i] = enc]
                  /\ progress' = [progress EXCEPT ![i] = pr]
                  /\ UNCHANGED <<variants, launched, inputSeen, upVars, manifest>>
             ELSE /\ variants' = [variants EXCEPT ![i] = vs]
                  /\ IF next # {}
                     THEN /\ StartTiers(i, fs1, plan[i], next, enc, mk)
                          /\ progress' = [progress EXCEPT ![i] = pr]
                          /\ UNCHANGED <<upVars, manifest>>
                     ELSE IF Len(vs) < Len(plan[i])
                          THEN /\ dirs' = fs1.dirs
                               /\ files' = fs1.files
                               /\ encoding' = [encoding EXCEPT ![i] = enc]
                               /\ progress' = [progress EXCEPT ![i] = pr]
                               /\ UNCHANGED <<status, wrote, raised, outcome, fault, pc,
                                              launched, inputSeen, upVars, manifest>>
                          ELSE /\ WriteManifestAndUpload(i, fs1, vs, pr, wr, rd)
                               /\ encoding' = [encoding EXCEPT ![i] = enc]
                               /\ UNCHANGED <<launched, inputSeen>>
  /\ UNCHANGED <<oid, vpath, plan, skipped, frames, spriteVars, req, res>>
  /\ UNCHANGED env

----------------------------------------------------------------------------
(* Upload Coordinator, completion and cleanup *)

\* the s3.upload calls made when the tasks in `start` begin, in queue order
Started(i, start) ==
  LET order == AscSeq(start)
  IN [n \in DOMAIN order |->
        UploadParams(hlsOutputDirOf(oid[i]), oid[i], upFiles[i][order[n]])]

\* After the uploads: the register gets 'completed' and the first half of the
\* cleanup runs, up to the one-second wait.  If that cleanup throws, the
\* finally block runs at once and the promise resolves.
Complete(i) ==
  \E F \in FaultChoices(FaultCands(i, FS(dirs, files))) :
    LET r == CleanupAfterUpload(FS(dirs, files), vpath[i], oid[i], F)
        fin == IF r.threw THEN FinalCleanup(r.fs, oid[i], F) ELSE r.fs
        esc == IF r.threw THEN CleanupCatch("EPERM: unlink") ELSE NoThrow
    IN IF esc # NoThrow
       THEN Fatal(i, r.fs, Append(wrote[i], PhaseAt("done")), "cleanup", esc)
       ELSE /\ status' = conversionStatusSet(status, oid[i], PhaseAt("done"))
            /\ wrote' = [wrote EXCEPT ![i] = Append(@, PhaseAt("done"))]
            /\ dirs' = fin.dirs
            /\ files' = fin.files
            /\ pc' = [pc EXCEPT ![i] = IF r.threw THEN "settled" ELSE "cleanupWait"]
            /\ outcome' = [outcome EXCEPT ![i] =
                             IF r.threw THEN [kind |-> "resolved", err |-> ""] ELSE @]
            /\ fault' = [fault EXCEPT ![i] = @ \/ F # NoFault]
            /\ UNCHANGED raised

\* what the caller of uploadHlsFilesToS3 does when the call settles
CoordinatorSettles(i, result) ==
  /\ upResult' = [upResult EXCEPT ![i] = result]
  /\ IF pc[i] = "coordinating" \/ pc[i] = "coordImport"
     THEN /\ pc' = [pc EXCEPT ![i] = "coordDone"]
          /\ UNCHANGED <<status, wrote, fsVars, raised, outcome, fault>>
     ELSE IF result.kind = "resolved"
          THEN Complete(i)
          ELSE Fatal(i, FS(dirs, files), wrote[i], "upload", result.err)

\* uploadHlsFilesToS3 after the import: one limited task per file, and
\* Promise.all over them
UploadBegin(i) ==
  /\ pc[i] \in {"uploadImport", "coordImport"}
  /\ LET start == NextToStart(upState[i], UploadConcurrency)
     IN /\ upState' = [upState EXCEPT ![i] =
                         [k \in DOMAIN @ |-> IF k \in start THEN "active" ELSE @[k]]]
        /\ upLog' = [upLog EXCEPT ![i] = @ \o Started(i, start)]
        /\ IF Len(upFiles[i]) = 0
           THEN CoordinatorSettles(i, [kind |-> "resolved", err |-> ""])
           ELSE /\ pc' = [pc EXCEPT ![i] =
                            IF pc[i] = "uploadImport" THEN "uploading" ELSE "coordinating"]
                /\ UNCHANGED <<upResult, status, wrote, fsVars, raised, outcome, fault>>
  /\ UNCHANGED <<upFiles, oid, vpath, encVars, skipped, progress, inputSeen, frames, manifest, spriteVars, req, res>>
  /\ UNCHANGED env

\* a combinator fulfilled by the first task that is fulfilled
AnyFulfilled(st) == \E j \in DOMAIN st : st[j] = "ok"

\* a combinator fulfilled once every task has been started
AllStarted(st) == \A j \in DOMAIN st : st[j] # "queued"

\* Promise.all(uploadPromises) is fulfilled once no task is left queued or
\* active (a rejection is dealt with before, at the task that fails)
AllFulfilled(st) == \A j \in DOMAIN st : st[j] \in {"ok", "failed"}

\* One upload task settles: p-limit starts the next queued task, and
\* Promise.all rejects on the first failure or resolves after the last success.
UploadTaskDone(i, k, ok) ==
  /\ k \in DOMAIN upState[i]
  /\ upState[i][k] = "active"
  /\ ~ok => env.flaky \/ upFiles[i][k] \notin files
  /\ LET st1 == [upState[i] EXCEPT ![k] = IF ok THEN "ok" ELSE "failed"]
         start == NextToStart(st1, UploadConcurrency - ActiveCount(st1))
         st2 == [j \in DOMAIN st1 |-> IF j \in start THEN "active" ELSE st1[j]]
         awaited == upResult[i].kind = "pending"
         thrown == IF ok THEN NoThrow ELSE TaskCatch(UploadError(upLog[i][k].Key))
     IN /\ upState' = [upState EXCEPT ![i] = st2]
        /\ upLog' = [upLog EXCEPT ![i] = @ \o Started(i, start)]
        /\ IF awaited /\ thrown # NoThrow
           THEN CoordinatorSettles(i, [kind |-> "rejected", err |-> thrown])
           ELSE IF awaited /\ AllFulfilled(st2)
                THEN CoordinatorSettles(i, [kind |-> "resolved", err |-> ""])
                ELSE UNCHANGED <<upResult, pc, status, wrote, fsVars, raised,
                                 outcome, fault>>
  /\ UNCHANGED <<upFiles, oid, vpath, encVars, skipped, progress, inputSeen, frames, manifest, spriteVars, req, res>>
  /\ UNCHANGED env

\* After the wait: the sweeps of the uploads directory, then the finally
\* block, and the promise resolves.
SweepAndSettle(i) ==
  /\ pc[i] = "cleanupWait"
  /\ \E F \in FaultChoices(FaultCands(i, FS(dirs, files))) :
       LET r == CleanupSweep(FS(dirs, files), oid[i], F)
           fin == FinalCleanup(r.fs, oid[i], F)
           esc == IF r.threw THEN CleanupCatch("EPERM: scandir") ELSE NoThrow
       IN IF esc # NoThrow
          THEN Fatal(i, r.fs, wrote[i], "cleanup", esc)
          ELSE /\ dirs' = fin.dirs
               /\ files' = fin.files
               /\ fault' = [fault EXCEPT ![i] = @ \/ F # NoFault]
               /\ pc' = [pc EXCEPT ![i] = "settled"]
               /\ outcome' = [outcome EXCEPT ![i] = [kind |-> "resolved", err |-> ""]]
               /\ UNCHANGED <<status, wrote, raised>>
  /\ UNCHANGED <<oid, vpath, encVars, upVars, skipped, progress, inputSeen, frames, manifest, spriteVars, req, res>>
  /\ UNCHANGED env

----------------------------------------------------------------------------
(* The orchestrator: overlapping convertToHLS invocations *)

Next ==
  \E i \in Invocations :
    \/ \E id \in Ids : \E videoPath \in VideoPaths(id) : Download(i, id, videoPath)
    \/ ConvertStart(i)
    \/ ThumbProbe(i)
    \/ ThumbExtract(i)
    \/ ThumbUpload(i)
    \/ SpriteStart(i)
    \/ SpriteProbe(i)
    \/ SpriteFrames(i)
    \/ SpriteTile(i)
    \/ SpriteUpload(i)
    \/ ResolutionProbe(i)
    \/ EncodeEnd(i)
    \/ UploadBegin(i)
    \/ \E k \in 1..Len(upState[i]) : \E ok \in BOOLEAN : UploadTaskDone(i, k, ok)
    \/ SweepAndSettle(i)

Spec == Init /\ [][Next]_vars

SpecOverlap == InitOverlap /\ [][Next]_vars

----------------------------------------------------------------------------
(* The Upload Coordinator by itself, on any directory tree *)

\* regular files an HLS root may hold, relative to the root
TreePool ==
  { <<"master.m3u8">>,
    <<"720p", "index.m3u8">>,
    <<"720p", "segment_000.ts">>,
    <<"480p", "index.m3u8">>,
    <<"480p", "segment_000.ts">>,
    <<"notes.m3u8.bak">>,
    <<"a.m3u8", "clip.ts">>,
    <<"deep", "x", "y.ts">> }

\* the trees: up to MaxTreeFiles regular files, and one empty directory
Trees ==
  LET root == hlsOutputDirOf("a")
  IN { FS(UNION {Ancestors(Parent(root \o f)) : f \in T} \cup Ancestors(Join(root, "empty")),
          {root \o f : f \in T}) :
       T \in {T \in SUBSET TreePool : Cardinality(T) <= MaxTreeFiles} }

InitUpload ==
  \E tree \in Trees :
    InitState([flaky |-> TRUE, faulty |-> FALSE, sizes |-> {}], tree,
              [i \in Invocations |-> IF i = 1 THEN "coordCall" ELSE "off"], "a")

\* uploadHlsFilesToS3(hlsOutputDir, objectId) is called on the tree
UploadCall(i) ==
  /\ pc[i] = "coordCall"
  /\ \E rd \in BOOLEAN :
       LET call == CoordinatorCall(FS(dirs, files), hlsOutputDirOf(oid[i]), rd)
       IN /\ ~rd => env.flaky
          /\ IF call.ok
             THEN /\ upFiles' = [upFiles EXCEPT ![i] = call.files]
                  /\ upState' = [upState EXCEPT ![i] = Queued(call.files)]
                  /\ upResult' = [upResult EXCEPT ![i] = Pending]
                  /\ pc' = [pc EXCEPT ![i] = "coordImport"]
             ELSE /\ upResult' = [upResult EXCEPT ![i] =
                                    [kind |-> "rejected", err |-> "EACCES: scandir"]]
                  /\ pc' = [pc EXCEPT ![i] = "coordDone"]
                  /\ UNCHANGED <<upFiles, upState>>
  /\ UNCHANGED <<status, fsVars, oid, vpath, encVars, upLog, outcome, wrote, raised,
                 skipped, progress, fault, inputSeen, frames, manifest, spriteVars, req, res>>
  /\ UNCHANGED env

NextUpload ==
  \E i \in Invocations :
    \/ UploadCall(i)
    \/ UploadBegin(i)
    \/ \E k \in 1..Len(upState[i]) : \E ok \in BOOLEAN : UploadTaskDone(i, k, ok)

SpecUpload == InitUpload /\ [][NextUpload]_vars

----------------------------------------------------------------------------
(* The Resolution Planner by itself, on any source size *)

PlannerWidths == {320, 640, 853, 854, 1080, 1280, 1920, 2560, 3840}

PlannerHeights == {240, 360, 479, 480, 720, 1080, 1440, 1920, 2160}

\* content complexity factors: 0.5, 1.0 (the default) and 2.0
Complexities == {[num |-> 1, den |-> 2], DefaultComplexity, [num |-> 2, den |-> 1]}

InitPlanner ==
  \E w \in PlannerWidths, h \in PlannerHeights, c \in Complexities :
    InitState([flaky |-> FALSE, faulty |-> FALSE, sizes |-> {<<w, h>>}, complexity |-> c],
              FS({UPLOADS_DIR}, {}),
              [i \in Invocations |-> IF i = 1 THEN "planCall" ELSE "off"], "a")

\* getDynamicResolutions(width, height, contentComplexity) is called
PlannerCall(i) ==
  /\ pc[i] = "planCall"
  /\ \E src \in env.sizes :
       plan' = [plan EXCEPT ![i] = getDynamicResolutions(src[1], src[2], env.complexity)]
  /\ pc' = [pc EXCEPT ![i] = "planned"]
  /\ UNCHANGED <<status, fsVars, oid, vpath, variants, encoding, launched, upVars,
                 outcome, wrote, raised, skipped, progress, fault, inputSeen, frames, manifest, spriteVars, req, res>>
  /\ UNCHANGED env

NextPlanner == \E i \in Invocations : PlannerCall(i)

SpecPlanner == InitPlanner /\ [][NextPlanner]_vars

----------------------------------------------------------------------------
(* The Sprite Sheet Generator by itself, frame by frame *)

\* convertToHLS is about to call generateSpriteSheet on a source of one
\* duration; the extractions fail by one pattern and end in one order
InitSprite ==
  \E d \in SpriteDurations, p \in FailurePatterns, o \in Orders :
    InitState([flaky |-> TRUE, faulty |-> FALSE, sizes |-> {}, durations |-> {d},
               pattern |-> p, order |-> o],
              FS({UPLOADS_DIR}, {}),
              [i \in Invocations |-> IF i = 1 THEN "spriteCall" ELSE "off"], "a")

\* generateSpriteSheet(videoPath, objectId) is called, the source downloaded
\* to videoPath or missing
SpriteCall(i) ==
  /\ pc[i] = "spriteCall"
  /\ \E downloaded \in BOOLEAN :
       LET videoPath == Join(outputDirOf(oid[i]), "original.mp4")
       IN /\ vpath' = [vpath EXCEPT ![i] = videoPath]
          /\ dirs' = dirs \cup Ancestors(Parent(videoPath))
          /\ files' = IF downloaded THEN files \cup {videoPath} ELSE files
  /\ pc' = [pc EXCEPT ![i] = "sprite"]
  /\ UNCHANGED <<status, oid, encVars, upVars, outcome, wrote, raised, skipped,
                 progress, fault, inputSeen, frames, manifest, spriteVars, req, res>>
  /\ UNCHANGED env

NextSprite ==
  \E i \in Invocations :
    \/ SpriteCall(i)
    \/ SpriteStart(i)
    \/ SpriteProbe(i)
    \/ FrameEnd(i)
    \/ FrameError(i)
    \/ BlankEnd(i)
    \/ SpriteTile(i)
    \/ SpriteUpload(i)

SpecSprite == InitSprite /\ [][NextSprite]_vars

----------------------------------------------------------------------------
(* The duration checks and the safe window of generateSpriteSheet by themselves *)

\* the largest of the durations taken millisecond by millisecond
MaxWindowMs == 120

\* probed durations in milliseconds: none and negative, every millisecond
\* up to MaxWindowMs, and whole seconds around 40 s, where 5% of the
\* duration reaches 2 s, and at the grid thresholds
WindowDurations ==
  (-1..MaxWindowMs)
    \cup {1000 * sec : sec \in {1, 2, 39, 40, 41, 100, 300, 600, 900}}
    \cup {39999, 40001}

InitWindow ==
  \E ms \in WindowDurations :
    InitState([flaky |-> FALSE, faulty |-> FALSE, sizes |-> {}, durations |-> {},
               durationMs |-> ms],
              FS({UPLOADS_DIR}, {}),
              [i \in Invocations |-> IF i = 1 THEN "windowCall" ELSE "off"], "a")

\* generateSpriteSheet from the probed duration to the timestamps: the
\* invalid-duration check, the safe window, the too-short check
SpriteWindow(i) ==
  /\ pc[i] = "windowCall"
  /\ LET duration == env.durationMs
         w == SafeWindow(duration)
     IN IF duration <= 0
        THEN /\ raised' = [raised EXCEPT ![i] =
                             [stage |-> "sprite", err |-> "Invalid video duration"]]
             /\ UNCHANGED window
        ELSE IF w.safeDuration <= 0
             THEN /\ raised' = [raised EXCEPT ![i] =
                                  [stage |-> "sprite",
                                   err |-> "Video is too short for sprite sheet generation"]]
                  /\ UNCHANGED window
             ELSE /\ window' = [window EXCEPT ![i] = w]
                  /\ UNCHANGED raised
  /\ pc' = [pc EXCEPT ![i] = "windowed"]
  /\ UNCHANGED <<status, fsVars, oid, vpath, encVars, upVars, outcome, wrote, skipped,
                 progress, fault, inputSeen, frames, manifest, frameTasks, grid, tiled,
                 req, res>>
  /\ UNCHANGED env

NextWindow == \E i \in Invocations : SpriteWindow(i)

SpecWindow == InitWindow /\ [][NextWindow]_vars

----------------------------------------------------------------------------
(* cleanupDirectory by itself, called twice on one tree *)

\* an outer catch that throws the error on
cleanupDirectoryCatchRethrows(err) == err

\* the outer catch of cleanupDirectory: the error is logged
cleanupDirectoryCatch(err) == NoThrow

\* what readdirSync(dirPath) throws inside cleanupDirectory, if anything
ReaddirError(fs, dirPath, F) ==
  IF ~Exists(fs, dirPath) THEN NoThrow
  ELSE IF dirPath \in fs.files THEN "ENOTDIR: scandir"
       ELSE IF dirPath \in F.nolist THEN "EACCES: scandir"
            ELSE NoThrow

\* the paths cleanupDirectory is called on: the root of the tree, a tier
\* directory, an empty directory, a regular file, a path that does not exist
CleanupTargets ==
  LET root == hlsOutputDirOf("a")
  IN {root, Join(root, "720p"), Join(root, "empty"), Join(root, "master.m3u8"),
      Join(root, "gone")}

\* a tree, a target in it, and at most one cleanup operation that fails
InitCleanup ==
  \E tree \in Trees, dirPath \in CleanupTargets, removeDir \in BOOLEAN :
    \E F \in {NoFault}
             \cup {[stuck |-> {p}, nolist |-> {}] :
                     p \in {q \in tree.dirs \cup tree.files : IsPrefix(dirPath, q)}}
             \cup {[stuck |-> {}, nolist |-> {p}] :
                     p \in {q \in tree.dirs : IsPrefix(dirPath, q)}} :
      InitState([flaky |-> FALSE, faulty |-> TRUE, sizes |-> {}, durations |-> {},
                 cleanupFault |-> F, dirPath |-> dirPath, removeDir |-> removeDir],
                tree,
                [i \in Invocations |-> IF i = 1 THEN "cleanupCall" ELSE "off"], "a")

\* cleanupDirectory(dirPath, removeDir) is called and returns or throws
CleanupDirectoryCall(i) ==
  /\ pc[i] \in {"cleanupCall", "cleanedOnce"}
  /\ LET fs0 == FS(dirs, files)
         fs1 == CleanupDirectory(fs0, env.dirPath, env.removeDir, env.cleanupFault)
         err == ReaddirError(fs0, env.dirPath, env.cleanupFault)
         thrown == IF err = NoThrow THEN NoThrow ELSE cleanupDirectoryCatch(err)
     IN /\ dirs' = fs1.dirs
        /\ files' = fs1.files
        /\ fault' = [fault EXCEPT ![i] = @ \/ fs1 # CleanupDirectory(fs0, env.dirPath,
                                                                    env.removeDir, NoFault)]
        /\ outcome' = [outcome EXCEPT ![i] =
                         IF thrown = NoThrow
                         THEN [kind |-> "resolved", err |-> ""]
                         ELSE [kind |-> "rejected", err |-> thrown]]
        /\ pc' = [pc EXCEPT ![i] =
                    IF thrown # NoThrow THEN "settled"
                    ELSE IF pc[i] = "cleanupCall" THEN "cleanedOnce" ELSE "cleanedTwice"]
  /\ UNCHANGED <<status, oid, vpath, encVars, upVars, wrote, raised, skipped, progress,
                 inputSeen, frames, manifest, spriteVars, req, res>>
  /\ UNCHANGED env

NextCleanup == \E i \in Invocations : CleanupDirectoryCall(i)

SpecCleanup == InitCleanup /\ [][NextCleanup]_vars

----------------------------------------------------------------------------
(* The HTTP handler convertToHls *)

\* req.query.objectId of the requests: values the sanitizer keeps, changes
\* or empties
RawIds == {"a", "a-b_1", "hls", "a/b", "../hls", "?!", ".."}

\* the requests: without an objectId, or with one of RawIds
Requests ==
  {[given |-> FALSE, objectId |-> ""]} \cup {[given |-> TRUE, objectId |-> raw] : raw \in RawIds}

Letters ==
  {"a", "b", "c", "d", "e", "f", "g", "h", "i", "j", "k", "l", "m",
   "n", "o", "p", "q", "r", "s", "t", "u", "v", "w", "x", "y", "z",
   "A", "B", "C", "D", "E", "F", "G", "H", "I", "J", "K", "L", "M",
   "N", "O", "P", "Q", "R", "S", "T", "U", "V", "W", "X", "Y", "Z"}

Digits == {"0", "1", "2", "3", "4", "5", "6", "7", "8", "9"}

\* a character class that also keeps the dot
IsIdCharOrDot(c) == c \in Letters \cup Digits \cup {"-", "_", "."}

\* the characters outside [^a-zA-Z0-9-_]
IsIdChar(c) == c \in Letters \cup Digits \cup {"-", "_"}

\* raw.replace(/[^a-zA-Z0-9-_]/g, '')
RECURSIVE Sanitize(_)
Sanitize(raw) ==
  IF raw = "" THEN ""
  ELSE LET c == SubSeq(raw, 1, 1)
           rest == Sanitize(SubSeq(raw, 2, Len(raw)))
       IN IF IsIdChar(c) THEN c \o rest ELSE rest

\* req.query.objectId?.toString().replace(...): "" stands for undefined too,
\* both fail the test !objectId
ObjectIdOf(request) == IF request.given THEN Sanitize(request.objectId) ELSE ""

\* the handler's catch block and its early returns: the response is sent
Respond(i, code, step) ==
  /\ res' = [res EXCEPT ![i] = [code |-> code, failed |-> step]]
  /\ pc' = [pc EXCEPT ![i] = "responded"]

\* a request arrives
InitHandler ==
  InitState([flaky |-> TRUE, faulty |-> FALSE, sizes |-> {<<640, 360>>},
             durations |-> Durations],
            FS({UPLOADS_DIR}, {}),
            [i \in Invocations |-> IF i = 1 THEN "request" ELSE "off"], "")

\* The handler up to its first await: the id is sanitized and tested, the
\* object folder made, and the download started.
HandleRequest(i) ==
  /\ pc[i] = "request"
  /\ \E request \in Requests, mk \in BOOLEAN :
       LET objectId == ObjectIdOf(request)
           fs0 == FS(dirs, files)
           folderPath == outputDirOf(objectId)
       IN /\ ~mk => env.flaky
          /\ req' = [req EXCEPT ![i] = request]
          /\ IF objectId = ""
             THEN /\ mk
                  /\ Respond(i, 400, "objectId")
                  /\ UNCHANGED <<fsVars, oid, vpath, progress>>
             ELSE IF ~Exists(fs0, folderPath) /\ ~mk
             THEN /\ Respond(i, 500, "folder")
                  /\ oid' = [oid EXCEPT ![i] = objectId]
                  /\ UNCHANGED <<fsVars, vpath, progress>>
             ELSE /\ dirs' = MkdirP(fs0, folderPath).dirs
                  /\ files' = files
                  /\ oid' = [oid EXCEPT ![i] = objectId]
                  /\ vpath' = [vpath EXCEPT ![i] = Join(folderPath, "original.mp4")]
                  /\ progress' = [progress EXCEPT ![i] = @ \cup {"download"}]
                  /\ pc' = [pc EXCEPT ![i] = "download"]
                  /\ UNCHANGED res
  /\ UNCHANGED <<status, encVars, upVars, outcome, wrote, raised, skipped, fault,
                 inputSeen, frames, manifest, spriteVars>>
  /\ UNCHANGED env

\* downloadFileUsingSignedUrl settles: the source is at filePath, or the
\* partial file is deleted and the error reaches the handler's catch; after
\* the download createThumbnail is called
HandlerDownload(i) ==
  /\ pc[i] = "download"
  /\ \E ok \in BOOLEAN :
       /\ ~ok => env.flaky
       /\ IF ok
          THEN /\ dirs' = dirs \cup Ancestors(Parent(vpath[i]))
               /\ files' = files \cup {vpath[i]}
               /\ pc' = [pc EXCEPT ![i] = "handlerThumbnail"]
               /\ UNCHANGED res
          ELSE /\ dirs' = dirs
               /\ files' = files \ {vpath[i]}
               /\ Respond(i, 500, "download")
  /\ UNCHANGED <<status, oid, vpath, encVars, upVars, outcome, wrote, raised, skipped,
                 progress, fault, inputSeen, frames, manifest, spriteVars, req>>
  /\ UNCHANGED env

\* createThumbnail, called by the handler, settles; the handler then starts
\* uploadImageToS3
HandlerThumbnail(i) ==
  /\ pc[i] = "handlerThumbnail"
  /\ \E ok \in BOOLEAN :
       LET fs1 == MkdirP(FS(dirs, files), outputDirOf(oid[i]))
       IN /\ ok => vpath[i] \in files
          /\ ~ok => env.flaky \/ vpath[i] \notin files
          /\ dirs' = fs1.dirs
          /\ IF ok
             THEN /\ files' = WriteFiles(fs1, {thumbnailPathOf(oid[i])}).files
                  /\ pc' = [pc EXCEPT ![i] = "handlerThumbnailUpload"]
                  /\ UNCHANGED res
             ELSE /\ files' = files
                  /\ Respond(i, 500, "thumbnail")
  /\ UNCHANGED <<status, oid, vpath, encVars, upVars, outcome, wrote, raised, skipped,
                 progress, fault, inputSeen, frames, manifest, spriteVars, req>>
  /\ UNCHANGED env

\* uploadImageToS3 settles; the handler then calls generateSpriteSheet
HandlerThumbnailUpload(i) ==
  /\ pc[i] = "handlerThumbnailUpload"
  /\ \E ok \in BOOLEAN :
       /\ ~ok => env.flaky
       /\ IF ok
          THEN /\ pc' = [pc EXCEPT ![i] = "handlerSprite"]
               /\ UNCHANGED res
          ELSE Respond(i, 500, "thumbnailUpload")
  /\ UNCHANGED <<status, fsVars, oid, vpath, encVars, upVars, outcome, wrote, raised,
                 skipped, progress, fault, inputSeen, frames, manifest, spriteVars, req>>
  /\ UNCHANGED env

\* generateSpriteSheet, called by the handler, settles: the sheet is in the
\* object folder and uploaded, or the call failed; either way the frame
\* directory is gone.  The handler then calls convertToHLS.
HandlerSprite(i) ==
  /\ pc[i] = "handlerSprite"
  /\ \E ok \in BOOLEAN :
       LET fs1 == MkdirP(FS(dirs, files), outputDirOf(oid[i]))
       IN /\ ok => vpath[i] \in files
          /\ ~ok => env.flaky \/ vpath[i] \notin files
          /\ dirs' = fs1.dirs
          /\ IF ok
             THEN /\ files' = WriteFiles(fs1, {spriteSheetPathOf(oid[i])}).files
                  /\ pc' = [pc EXCEPT ![i] = "called"]
                  /\ UNCHANGED res
             ELSE /\ files' = files
                  /\ Respond(i, 500, "sprite")
  /\ UNCHANGED <<status, oid, vpath, encVars, upVars, outcome, wrote, raised, skipped,
                 progress, fault, inputSeen, frames, manifest, spriteVars, req>>
  /\ UNCHANGED env

\* convertToHLS has settled: the handler sends the success body, or its
\* catch block sends 500
HandlerRespond(i) ==
  /\ pc[i] = "settled"
  /\ IF outcome[i].kind = "resolved"
     THEN Respond(i, 200, "")
     ELSE Respond(i, 500, "convertToHLS")
  /\ UNCHANGED <<status, fsVars, oid, vpath, encVars, upVars, outcome, wrote, raised,
                 skipped, progress, fault, inputSeen, frames, manifest, spriteVars, req>>
  /\ UNCHANGED env

NextHandler ==
  \E i \in Invocations :
    \/ HandleRequest(i)
    \/ HandlerDownload(i)
    \/ HandlerThumbnail(i)
    \/ HandlerThumbnailUpload(i)
    \/ HandlerSprite(i)
    \/ ConvertStart(i)
    \/ ThumbProbe(i)
    \/ ThumbExtract(i)
    \/ ThumbUpload(i)
    \/ SpriteStart(i)
    \/ SpriteProbe(i)
    \/ SpriteFrames(i)
    \/ SpriteTile(i)
    \/ SpriteUpload(i)
    \/ ResolutionProbe(i)
    \/ EncodeEnd(i)
    \/ UploadBegin(i)
    \/ \E k \in 1..Len(upState[i]) : \E ok \in BOOLEAN : UploadTaskDone(i, k, ok)
    \/ SweepAndSettle(i)
    \/ HandlerRespond(i)

SpecHandler == InitHandler /\ [][NextHandler]_vars

----------------------------------------------------------------------------
(* Properties *)

Last(s) == s[Len(s)]

Range(s) == {s[n] : n \in DOMAIN s}

Settled(i) == pc[i] = "settled"

Resolved(i) == outcome[i].kind = "resolved"

Rejected(i) == outcome[i].kind = "rejected"

MandatoryStages == {"setup", "probe", "encode", "manifest", "upload"}

BestEffortStages == {"thumbnail", "thumbnailUpload", "sprite"}

PhaseRank(p) ==
  CASE p = "none" -> 0
    [] p = "converting" -> 1
    [] p = "uploading" -> 2
    [] p = "completed" -> 3
    [] p = "error" -> 4

\* a register change that moves forward along converting -> uploading ->
\* completed, or jumps to error
Forward(a, b) ==
  \/ a = b
  \/ b = "error"
  \/ a # "error" /\ PhaseRank(a) < PhaseRank(b)

\* C1 as stated: over any sequence of invocations, overlapping or repeated,
\* the register entry of every id only moves forward or jumps to error.
RegisterOnlyMovesForward ==
  [][\A id \in Ids : Forward(status[id], status'[id])]_vars

\* the values one invocation may have written so far
ForwardHistories ==
  { << >>,
    <<"converting">>,
    <<"converting", "uploading">>,
    <<"converting", "uploading", "completed">>,
    <<"converting", "error">>,
    <<"converting", "uploading", "error">> }

\* C1, amended: the values each single invocation writes to the register go
\* converting -> uploading -> completed or end with error, with nothing
\* written after completed or error; and the register entry of an id always
\* holds the last value written by some invocation for that id, so a new
\* invocation sets it back to converting.
InvocationWritesMoveForward ==
  /\ \A i \in Invocations : wrote[i] \in ForwardHistories
  /\ \A id \in Ids :
       LET writers == {i \in Invocations : oid[i] = id /\ wrote[i] # << >>}
       IN IF writers = {}
          THEN status[id] = "none"
          ELSE \E i \in writers : status[id] = Last(wrote[i])

\* C1's case: a second invocation for an id that already completed has set
\* the register back to converting
RegisterResetByRerun ==
  \E i, j \in Invocations :
    /\ i # j
    /\ oid[i] = oid[j]
    /\ wrote[i] = <<"converting", "uploading", "completed">>
    /\ wrote[j] = <<"converting">>
    /\ status[oid[i]] = "converting"

JobDirsGone(i) ==
  \A d \in {outputDirOf(oid[i]), hlsOutputDirOf(oid[i])} :
    d \notin dirs /\ d \notin files /\ \A p \in dirs \cup files : ~Under(d, p)

\* C2: once convertToHLS has settled, resolved or rejected at whatever stage,
\* and no cleanup operation failed, neither uploads/<id> nor uploads/hls/<id>
\* exists.
SettledLeavesNoJobDirs ==
  \A i \in Invocations : Settled(i) /\ ~fault[i] => JobDirsGone(i)

\* C2's case: a job rejected by a failed upload, its directories full, with
\* every removal succeeding
RejectedAtUploadCleaned ==
  \E i \in Invocations :
    /\ Settled(i)
    /\ Rejected(i)
    /\ raised[i].stage = "upload"
    /\ upLog[i] # << >>
    /\ ~fault[i]

\* C3 as stated: once convertToHLS has settled, resolved or rejected, and no
\* cleanup operation failed, the source file passed as videoPath is gone,
\* wherever it lies.
SettledLeavesNoSource ==
  \A i \in Invocations : Settled(i) /\ ~fault[i] => vpath[i] \notin files

\* C4: once a tier's encode has failed, the job is rejected and settled with
\* the register at error and never at uploading or completed, no further tier
\* was launched, no master manifest was written and the Upload Coordinator
\* was not called.
EncodeFailureAborts ==
  \A i \in Invocations :
    "encodeError" \in progress[i] =>
      /\ Settled(i)
      /\ Rejected(i)
      /\ raised[i].stage = "encode"
      /\ Last(wrote[i]) = "error"
      /\ status[oid[i]] = "error"
      /\ Range(wrote[i]) \cap {"uploading", "completed"} = {}
      /\ progress[i] \cap {"master", "uploadCalled"} = {}
      /\ masterPlaylistPathOf(oid[i]) \notin files
      /\ upResult[i] = NotCalled
      /\ upLog[i] = << >>
      /\ encoding[i] = {}
      /\ Len(launched[i]) = Len(variants[i]) + 1

\* C4's case: the first tier of a two-tier plan failed
FirstOfTwoTiersFailed ==
  \E i \in Invocations :
    /\ "encodeError" \in progress[i]
    /\ Len(plan[i]) = 2
    /\ variants[i] = << >>

\* C5: a failed best-effort stage is never what puts the register at error,
\* and a job that settles with no mandatory stage failing has probed,
\* planned, encoded every tier, called the upload, written completed last
\* and resolved, whatever best-effort stages were skipped.
BestEffortFailuresNotFatal ==
  \A i \in Invocations :
    /\ raised[i].stage \notin BestEffortStages
    /\ "error" \in Range(wrote[i]) => raised[i].stage \in MandatoryStages
    /\ Settled(i) /\ raised[i].stage \notin MandatoryStages =>
         /\ Resolved(i)
         /\ Last(wrote[i]) = "completed"
         /\ status[oid[i]] = "completed"
         /\ plan[i] # << >>
         /\ Len(variants[i]) = Len(plan[i])
         /\ "uploadCalled" \in progress[i]
         /\ upResult[i].kind = "resolved"

\* C5's case: the thumbnail upload and the sprite sheet both failed, and the
\* job completed
CompletedDespiteSkips ==
  \E i \in Invocations :
    /\ Settled(i)
    /\ Resolved(i)
    /\ {"thumbnailUpload", "sprite"} \subseteq skipped[i]
    /\ Last(wrote[i]) = "completed"

\* C6: for a single invocation, every fatal error puts the register at error
\* and is the very value convertToHLS rejects with; convertToHLS is rejected
\* only with error as the last value it wrote, and resolved only with
\* completed.
FatalErrorsPropagateUnmodified ==
  \A i \in Invocations :
    /\ raised[i] # NoError =>
         /\ outcome[i] = [kind |-> "rejected", err |-> raised[i].err]
         /\ Last(wrote[i]) = "error"
         /\ status[oid[i]] = "error"
    /\ Rejected(i) =>
         /\ raised[i].stage \in MandatoryStages
         /\ Last(wrote[i]) = "error"
    /\ Resolved(i) =>
         /\ raised[i] = NoError
         /\ Last(wrote[i]) = "completed"
         /\ status[oid[i]] = "completed"

\* C6's case: the probe found no video stream, and that error came out
RejectedWithNoVideoStream ==
  \E i \in Invocations :
    /\ raised[i] = [stage |-> "probe", err |-> "No video stream found in the file"]
    /\ outcome[i] = [kind |-> "rejected", err |-> "No video stream found in the file"]
    /\ status[oid[i]] = "error"

\* the errors the cleanup's filesystem operations throw
CleanupErrors == {"EPERM: unlink", "EPERM: scandir"}

\* C7: whatever cleanup operation fails, a job whose uploads all succeeded
\* writes completed last and resolves, and a rejected job is rejected with
\* the error of the stage that failed and the register at error, never with a
\* cleanup error.
CleanupFailuresKeepOutcome ==
  \A i \in Invocations :
    /\ upResult[i].kind = "resolved" =>
         /\ Last(wrote[i]) = "completed"
         /\ status[oid[i]] = "completed"
         /\ ~Rejected(i)
         /\ Settled(i) => Resolved(i)
    /\ Rejected(i) =>
         /\ outcome[i].err \notin CleanupErrors
         /\ outcome[i].err = raised[i].err
         /\ raised[i].stage # "cleanup"
         /\ status[oid[i]] = "error"

\* C7's case: the unlink of the source failed after a successful upload, and
\* the job resolved as completed
ResolvedDespiteStuckSource ==
  \E i \in Invocations :
    /\ fault[i]
    /\ Settled(i)
    /\ Resolved(i)
    /\ status[oid[i]] = "completed"
    /\ vpath[i] \in files

\* C8: at most one encode of a job is in flight, and it is the encode of the
\* tier after the last one that reported completion; tiers are launched in
\* plan order, one per completed predecessor; the variant entries are those
\* of the plan's tiers, in plan order.
TiersEncodeOneAtATime ==
  \A i \in Invocations :
    /\ Cardinality(encoding[i]) <= 1
    /\ encoding[i] \subseteq {Len(variants[i]) + 1}
    /\ Len(launched[i]) <= Len(variants[i]) + 1
    /\ Len(launched[i]) <= Len(plan[i])
    /\ \A n \in DOMAIN launched[i] : launched[i][n] = n
    /\ Len(variants[i]) <= Len(plan[i])
    /\ \A n \in DOMAIN variants[i] :
         /\ variants[i][n].width = plan[i][n].width
         /\ variants[i][n].height = plan[i][n].height
         /\ variants[i][n].bitrate = plan[i][n].bitrate

\* C8's case: the second tier is being encoded after the first completed
SecondTierAfterFirst ==
  \E i \in Invocations :
    /\ Len(plan[i]) = 2
    /\ Len(variants[i]) = 1
    /\ encoding[i] = {2}
    /\ launched[i] = <<1, 2>>

InFlight(i) == {k \in DOMAIN upState[i] : upState[i][k] = "active"}

\* C9: during an Upload Coordinator call at most 5 of its uploads are in
\* flight, however many files the tree holds.
AtMostFiveUploadsInFlight ==
  \A i \in Invocations : Cardinality(InFlight(i)) <= 5

\* C9's case: five uploads in flight and a sixth file waiting
FiveInFlightOneWaiting ==
  \E i \in Invocations :
    /\ Cardinality(InFlight(i)) = 5
    /\ \E k \in DOMAIN upState[i] : upState[i][k] = "queued"

\* the remote key and content type each file of the pool must get under
\* the root of job "a"
ExpectedUpload(rel) ==
  CASE rel = <<"master.m3u8">> ->
         [Key |-> "courses/chapters/videos/a/master.m3u8",
          ContentType |-> "application/x-mpegURL"]
    [] rel = <<"720p", "index.m3u8">> ->
         [Key |-> "courses/chapters/videos/a/720p/index.m3u8",
          ContentType |-> "application/x-mpegURL"]
    [] rel = <<"720p", "segment_000.ts">> ->
         [Key |-> "courses/chapters/videos/a/720p/segment_000.ts",
          ContentType |-> "video/MP2T"]
    [] rel = <<"480p", "index.m3u8">> ->
         [Key |-> "courses/chapters/videos/a/480p/index.m3u8",
          ContentType |-> "application/x-mpegURL"]
    [] rel = <<"480p", "segment_000.ts">> ->
         [Key |-> "courses/chapters/videos/a/480p/segment_000.ts",
          ContentType |-> "video/MP2T"]
    [] rel = <<"notes.m3u8.bak">> ->
         [Key |-> "courses/chapters/videos/a/notes.m3u8.bak",
          ContentType |-> "video/MP2T"]
    [] rel = <<"a.m3u8", "clip.ts">> ->
         [Key |-> "courses/chapters/videos/a/a.m3u8/clip.ts",
          ContentType |-> "video/MP2T"]
    [] rel = <<"deep", "x", "y.ts">> ->
         [Key |-> "courses/chapters/videos/a/deep/x/y.ts",
          ContentType |-> "video/MP2T"]

\* the regular files of the tree the coordinator was called on
TreeFiles == {f \in files : Under(hlsOutputDirOf("a"), f)}

\* the call enumerated the tree and every task has been started
AllUploadsStarted(i) ==
  /\ pc[i] \in {"coordinating", "coordDone"}
  /\ upResult[i].err # "EACCES: scandir"
  /\ \A k \in DOMAIN upState[i] : upState[i][k] # "queued"

\* C10: the coordinator invokes the storage upload at most once per regular
\* file of the tree and for nothing else, with key = prefix + relative path
\* and the content type by the .m3u8 suffix; once every task has started,
\* and so whenever the call resolves, there are exactly N invocations for the
\* N files.
EveryFileUploadedOnce ==
  \A i \in Invocations :
    /\ \A n \in DOMAIN upLog[i] :
         LET u == upLog[i][n]
             rel == SubSeq(u.file, 4, Len(u.file))
         IN /\ u.file \in TreeFiles
            /\ u.Key = ExpectedUpload(rel).Key
            /\ u.ContentType = ExpectedUpload(rel).ContentType
            /\ \A m \in DOMAIN upLog[i] : m # n => upLog[i][m].file # u.file
    /\ AllUploadsStarted(i) => Len(upLog[i]) = Cardinality(TreeFiles)
    /\ upResult[i].kind = "resolved" => Len(upLog[i]) = Cardinality(TreeFiles)

\* C10's case: a call on a six-file tree with a nested directory named like
\* a manifest and a file with .m3u8 inside its name has resolved
SixFilesUploaded ==
  \E i \in Invocations :
    /\ upResult[i].kind = "resolved"
    /\ Len(upLog[i]) = 6
    /\ \E n \in DOMAIN upLog[i] : upLog[i][n].file = hlsOutputDirOf("a") \o <<"a.m3u8", "clip.ts">>
    /\ \E n \in DOMAIN upLog[i] : upLog[i][n].file = hlsOutputDirOf("a") \o <<"notes.m3u8.bak">>
    /\ \E n \in DOMAIN upLog[i] : upLog[i][n].file = hlsOutputDirOf("a") \o <<"deep", "x", "y.ts">>

\* the error of the upload of the k-th file of a call on the tree of job "a"
ExpectedUploadError(i, k) ==
  "upload failed: " \o ExpectedUpload(SubSeq(upFiles[i][k], 4, Len(upFiles[i][k]))).Key

\* C11: the coordinator call resolves only with every upload accepted, and
\* does so once the last one is; the first upload to fail rejects the call
\* at once with that upload's error, while the other uploads in flight stay
\* in flight and queued ones still start; a rejected call's result never
\* changes.  (A call whose directory listing threw discovered no file and
\* is rejected with the listing's error.)
FirstUploadFailureRejects ==
  [][\A i \in Invocations :
       LET tasks == DOMAIN upState[i] \cap DOMAIN upState'[i]
           failedNow == {k \in tasks : upState[i][k] = "active" /\ upState'[i][k] = "failed"}
       IN /\ upResult[i].kind = "pending" /\ failedNow # {} =>
               /\ \E k \in failedNow :
                    upResult'[i] = [kind |-> "rejected", err |-> ExpectedUploadError(i, k)]
               /\ \A j \in tasks \ failedNow :
                    /\ upState[i][j] = "active" => upState'[i][j] = "active"
                    /\ upState[i][j] = "queued" => upState'[i][j] \in {"queued", "active"}
          /\ upResult[i].kind \in {"rejected", "resolved"} => upResult'[i] = upResult[i]
          /\ upResult'[i].kind = "resolved" =>
               \A k \in DOMAIN upState'[i] : upState'[i][k] = "ok"
          /\ (\E k \in DOMAIN upState'[i] : upState'[i][k] = "failed") =>
               upResult'[i].kind = "rejected"
          /\ (pc'[i] \in {"coordinating", "coordDone"}
                /\ upResult'[i].err # "EACCES: scandir"
                /\ \A k \in DOMAIN upState'[i] : upState'[i][k] = "ok") =>
               upResult'[i].kind = "resolved"]_vars

\* C11's case: the call is rejected by one failed upload while another is
\* still in flight, and a third was accepted
RejectedWithUploadsInFlight ==
  \E i \in Invocations :
    /\ upResult[i].kind = "rejected"
    /\ \E k \in DOMAIN upState[i] : upState[i][k] = "failed"
    /\ \E k \in DOMAIN upState[i] : upState[i][k] = "active"
    /\ \E k \in DOMAIN upState[i] : upState[i][k] = "ok"

\* the invocations for which the Planner has returned, and their source size
Planned == {i \in Invocations : pc[i] = "planned"}

SourceWidth == (CHOOSE src \in env.sizes : TRUE)[1]

SourceHeight == (CHOOSE src \in env.sizes : TRUE)[2]

Pixels(t) == t.width * t.height

\* C12: every tier of a returned plan has at most the source's pixel count,
\* each tier has strictly fewer pixels than the one before it, and no two
\* tiers have the same name.
PlanWithinSourceDescending ==
  \A i \in Planned :
    /\ \A k \in DOMAIN plan[i] : Pixels(plan[i][k]) <= SourceWidth * SourceHeight
    /\ \A k \in DOMAIN plan[i] :
         k > 1 => Pixels(plan[i][k]) < Pixels(plan[i][k - 1])
    /\ \A k, m \in DOMAIN plan[i] : k # m => plan[i][k].name # plan[i][m].name

\* C12's case: a 1920x1080 source planned as three tiers, 1080p first
ThreeTiersFor1080p ==
  \E i \in Planned :
    /\ SourceWidth = 1920
    /\ SourceHeight = 1080
    /\ Len(plan[i]) = 3
    /\ plan[i][1].name = "1080p"
    /\ plan[i][3].name = "480p"

CatalogNames == {"2160p", "1440p", "1080p", "720p", "480p"}

\* C13: a plan is never empty; for a source of fewer than 854*480 pixels it
\* is exactly one tier of the source's width and height, crf 23, named
\* "<h>p (source)"; for any other source every tier is a catalog tier.
PlanNeverEmptyFallbackExact ==
  \A i \in Planned :
    /\ Len(plan[i]) >= 1
    /\ SourceWidth * SourceHeight < 854 * 480 =>
         /\ Len(plan[i]) = 1
         /\ plan[i][1].width = SourceWidth
         /\ plan[i][1].height = SourceHeight
         /\ plan[i][1].crf = 23
         /\ plan[i][1].name = ToString(SourceHeight) \o "p (source)"
    /\ SourceWidth * SourceHeight >= 854 * 480 =>
         \A k \in DOMAIN plan[i] : plan[i][k].name \in CatalogNames

\* C13's case: a source one pixel column short of 480p gets the fallback tier
FallbackFor853x480 ==
  \E i \in Planned :
    /\ SourceWidth = 853
    /\ SourceHeight = 480
    /\ Len(plan[i]) = 1
    /\ plan[i][1].name = "480p (source)"
    /\ plan[i][1].width = 853

\* b = Math.round(n / d), for n >= 0 and d > 0
IsRounded(b, n, d) == 2 * (n - b * d) < d /\ 2 * (n - b * d) >= 0 - d

\* the tier's bitrate is round(base * (w*h)/(1920*1080) * complexity) and "k"
FallbackBitrateFrom(t, base) ==
  \E b \in 0..1000 :
    /\ t.bitrate = ToString(b) \o "k"
    /\ IsRounded(b, base * SourceWidth * SourceHeight * env.complexity.num,
                 1920 * 1080 * env.complexity.den)

IsFallbackPlan(i) == Len(plan[i]) = 1 /\ plan[i][1].name \notin CatalogNames

\* C14 as stated: the synthesized tier's bitrate comes from the base bitrate
\* of the smallest catalog tier, 480p: 1000.
FallbackBitrateFrom480p ==
  \A i \in Planned : IsFallbackPlan(i) => FallbackBitrateFrom(plan[i][1], 1000)

\* C14, amended: the synthesized tier's bitrate comes from the base bitrate
\* of the 720p catalog tier, 2500: it is
\* round(2500 * (w*h)/(1920*1080) * complexity) followed by "k".
FallbackBitrateFrom720p ==
  \A i \in Planned : IsFallbackPlan(i) => FallbackBitrateFrom(plan[i][1], 2500)

\* C14's case: 640x360 at complexity 1.0 gets round(2500 * 0.1111) = 278
FallbackBitrate640x360 ==
  \E i \in Planned :
    /\ SourceWidth = 640
    /\ SourceHeight = 360
    /\ env.complexity = [num |-> 1, den |-> 1]
    /\ IsFallbackPlan(i)
    /\ plan[i][1].bitrate = "278k"

\* round(baseBitrate * (tierW*tierH) / (1920*1080)) for the catalog's tiers:
\* 15000 * 4, 8000 * 1.7778, 5000 * 1, 2500 * 0.4444, 1000 * 0.19769
CatalogBitrate(name) ==
  CASE name = "2160p" -> "60000k"
    [] name = "1440p" -> "14222k"
    [] name = "1080p" -> "5000k"
    [] name = "720p" -> "1111k"
    [] name = "480p" -> "198k"

\* C15: at complexity 1.0 every catalog tier of a plan carries
\* round(baseBitrate * (tierW*tierH) / (1920*1080)) and "k": 720p "1111k",
\* 1080p "5000k".
CatalogBitratesAtDefaultComplexity ==
  \A i \in Planned :
    env.complexity = [num |-> 1, den |-> 1] =>
      \A k \in DOMAIN plan[i] :
        plan[i][k].name \in CatalogNames =>
          plan[i][k].bitrate = CatalogBitrate(plan[i][k].name)

\* C15's case: a plan with 1080p at "5000k", 720p at "1111k", 480p at "198k"
PlanWith1080pAnd720pBitrates ==
  \E i \in Planned :
    /\ env.complexity = [num |-> 1, den |-> 1]
    /\ \E k \in DOMAIN plan[i] : plan[i][k].name = "1080p" /\ plan[i][k].bitrate = "5000k"
    /\ \E k \in DOMAIN plan[i] : plan[i][k].name = "720p" /\ plan[i][k].bitrate = "1111k"
    /\ \E k \in DOMAIN plan[i] : plan[i][k].name = "480p" /\ plan[i][k].bitrate = "198k"

\* BANDWIDTH for the bitrates the plans of Sources carry: 1000 * the number
ExpectedBandwidth(bitrate) ==
  CASE bitrate = "1111k" -> "1111000"
    [] bitrate = "198k" -> "198000"
    [] bitrate = "278k" -> "278000"

\* the playlist path of a tier relative to the HLS root
ExpectedPlaylist(name) ==
  CASE name = "720p" -> "720p/index.m3u8"
    [] name = "480p" -> "480p/index.m3u8"
    [] name = "360p (source)" -> "360p/index.m3u8"

\* C16: an invocation writes the master manifest at most once, and only with
\* every tier of the plan encoded without error; what it writes is the
\* header line, then per tier of the plan, in plan order, a stream-info line
\* with BANDWIDTH = 1000 * the tier's bitrate number and RESOLUTION =
\* <width>x<height>, and the tier's relative playlist path.
ManifestListsPlanInOrder ==
  \A i \in Invocations :
    /\ Len(manifest[i]) <= 1
    /\ manifest[i] # << >> =>
         LET m == manifest[i][1]
         IN /\ "encodeError" \notin progress[i]
            /\ Len(variants[i]) = Len(plan[i])
            /\ encoding[i] = {}
            /\ Len(m) = 1 + 2 * Len(plan[i])
            /\ m[1] = "#EXTM3U"
            /\ \A k \in DOMAIN plan[i] :
                 /\ m[2 * k] = "#EXT-X-STREAM-INF:BANDWIDTH="
                                 \o ExpectedBandwidth(plan[i][k].bitrate)
                                 \o ",RESOLUTION=" \o ToString(plan[i][k].width)
                                 \o "x" \o ToString(plan[i][k].height)
                 /\ m[2 * k + 1] = ExpectedPlaylist(plan[i][k].name)
                 /\ k > 1 => Pixels(plan[i][k]) < Pixels(plan[i][k - 1])

\* C16's case: the manifest of a 1280x720 source, 720p before 480p
ManifestFor720pSource ==
  \E i \in Invocations :
    manifest[i] = << << "#EXTM3U",
                        "#EXT-X-STREAM-INF:BANDWIDTH=1111000,RESOLUTION=1280x720",
                        "720p/index.m3u8",
                        "#EXT-X-STREAM-INF:BANDWIDTH=198000,RESOLUTION=854x480",
                        "480p/index.m3u8" >> >>

\* the duration of the source handed to the Sprite Sheet Generator
SourceDuration == CHOOSE d \in env.durations : TRUE

\* the frame extractions of invocation i have been launched
FramesLaunched(i) == frames[i] > 0

\* the frame indices 0..n-1
FrameIndices(n) == 0..(n - 1)

\* C17 as stated: a 720-second source gets a 6x8 sprite sheet, 48 frame
\* extractions launched and 48 frames tiled.
SpriteOf720sIs6x8 ==
  \A i \in Invocations :
    (env.durations = {720} /\ FramesLaunched(i)) =>
      /\ grid[i] = [rows |-> 6, cols |-> 8]
      /\ Len(frameTasks[i]) = 48
      /\ \A n \in DOMAIN tiled[i] : tiled[i][n].input = FrameIndices(48)

\* C17: a 720-second source gets an 8x10 sprite sheet: 80 frame extractions
\* are launched, and the tiling, when launched, lays 80 frames out in 10
\* columns and 8 rows.
SpriteOf720sIs8x10 ==
  \A i \in Invocations :
    (env.durations = {720} /\ FramesLaunched(i)) =>
      /\ grid[i] = [rows |-> 8, cols |-> 10]
      /\ frames[i] = 80
      /\ Len(frameTasks[i]) = 80
      /\ \A n \in DOMAIN tiled[i] :
           /\ tiled[i][n].cols = 10
           /\ tiled[i][n].rows = 8
           /\ tiled[i][n].input = FrameIndices(80)

\* C17's case: the 80 frames of a 720-second source are being tiled
Tiling80FramesOf720s ==
  \E i \in Invocations :
    /\ env.durations = {720}
    /\ pc[i] = "spriteTile"
    /\ Len(tiled[i]) = 1
    /\ tiled[i][1].input = FrameIndices(80)

\* C18: the grid is chosen by the duration d alone: 5x5 when d <= 300, 6x8
\* when 300 < d <= 600, 8x10 when d > 600; and the number of frame
\* extractions launched is rows * cols of that grid: 25, 48 or 80.
GridChosenByDuration ==
  \A i \in Invocations :
    FramesLaunched(i) =>
      LET d == SourceDuration
          rows == IF d <= 300 THEN 5 ELSE IF d <= 600 THEN 6 ELSE 8
          cols == IF d <= 300 THEN 5 ELSE IF d <= 600 THEN 8 ELSE 10
          n == IF d <= 300 THEN 25 ELSE IF d <= 600 THEN 48 ELSE 80
      IN /\ d > 0
         /\ grid[i] = [rows |-> rows, cols |-> cols]
         /\ frames[i] = n
         /\ Len(frameTasks[i]) = n
         /\ n = rows * cols

\* C18's case: the 48 extractions of a 600-second source were launched and
\* none has ended yet
FortyEightLaunchedAt600s ==
  \E i \in Invocations :
    /\ env.durations = {600}
    /\ pc[i] = "spriteFrames"
    /\ Len(frameTasks[i]) = 48
    /\ \A k \in DOMAIN frameTasks[i] : frameTasks[i][k] = "extracting"

\* the frame promises of invocation i that have not settled
FramesInFlight(i) ==
  {k \in DOMAIN frameTasks[i] : frameTasks[i][k] \in {"extracting", "blanking"}}

\* the tiling of invocation i has been launched
TilingLaunched(i) == tiled[i] # << >>

\* C19: the tiling is launched only when all N frame tasks have completed,
\* each by its extraction or by its blank replacement, in whatever order they
\* completed; no frame task of the run is in flight when the tiling starts,
\* and every frame it reads is on disk by then.
TilingAfterAllFrames ==
  /\ [](\A i \in Invocations :
         (TilingLaunched(i) \/ pc[i] \in {"spriteTile", "spriteUpload"}) =>
           /\ FramesLaunched(i)
           /\ Len(frameTasks[i]) = frames[i]
           /\ FramesInFlight(i) = {}
           /\ \A k \in DOMAIN frameTasks[i] : frameTasks[i][k] = "resolved"
           /\ Len(tiled[i]) = 1
           /\ tiled[i][1].input = FrameIndices(frames[i]))
  /\ [][\A i \in Invocations :
          tiled'[i] # tiled[i] =>
            /\ pc[i] = "spriteFrames"
            /\ Cardinality(FramesInFlight(i)) = 1
            /\ \A k \in DOMAIN frameTasks[i] : frameTasks'[i][k] = "resolved"]_vars

\* C19's case: the tiling runs after a batch that ended evens first, the
\* blank replacements of the failed frames among the last to be written
TilingAfterEvensFirstBatch ==
  \E i \in Invocations :
    /\ env.order = "evensFirst"
    /\ env.pattern = "several"
    /\ pc[i] = "spriteTile"
    /\ TilingLaunched(i)
    /\ FramesInFlight(i) = {}

\* the positions of the frames of invocation i whose extraction fails
FailingFrames(i) == Failing(env.pattern, Len(frameTasks[i]))

\* C20: a failed extraction, of one frame, of several or of all N, does not
\* fail the sprite sheet: the frame's promise stays pending while a blank
\* frame is written at the same frame index, and a frame promise rejects only
\* when that blank frame cannot be written; with every blank frame written
\* the batch ends in the tiling of all N frames, the replaced ones included.
ExtractionFailuresReplacedByBlanks ==
  /\ [](\A i \in Invocations :
         /\ (pc[i] = "spriteFrames" /\ FramesLaunched(i)) =>
              /\ FramesInFlight(i) # {}
              /\ "sprite" \notin skipped[i]
              /\ \A k \in DOMAIN frameTasks[i] :
                   /\ frameTasks[i][k] # "rejected"
                   /\ frameTasks[i][k] = "blanking" => k \in FailingFrames(i)
                   /\ frameTasks[i][k] = "resolved" =>
                        FramePath(oid[i], k - 1) \in files
         /\ (FramesLaunched(i) /\ FramesInFlight(i) = {}
               /\ \A k \in DOMAIN frameTasks[i] : frameTasks[i][k] = "resolved") =>
              /\ TilingLaunched(i)
              /\ tiled[i][1].input = FrameIndices(frames[i])
              /\ \A k \in FailingFrames(i) : k - 1 \in tiled[i][1].input)
  /\ [][\A i \in Invocations : \A k \in DOMAIN frameTasks[i] :
          /\ (frameTasks[i][k] = "extracting" /\ frameTasks'[i][k] # "extracting") =>
               frameTasks'[i][k] = IF k \in FailingFrames(i) THEN "blanking" ELSE "resolved"
          /\ (frameTasks[i][k] = "blanking" /\ frameTasks'[i][k] # "blanking") =>
               \/ /\ frameTasks'[i][k] = "resolved"
                  /\ FramePath(oid[i], k - 1) \in files'
               \/ /\ frameTasks'[i][k] = "rejected"
                  /\ "sprite" \in skipped'[i]
                  /\ ~TilingLaunched(i)']_vars

\* C20's case: every one of the 80 extractions failed, and the tiling runs
\* over 80 blank frames
TilingEightyBlankFrames ==
  \E i \in Invocations :
    /\ env.pattern = "all"
    /\ FailingFrames(i) = 1..80
    /\ pc[i] = "spriteTile"
    /\ tiled[i][1].input = FrameIndices(80)
    /\ "sprite" \notin skipped[i]

\* the frames of invocation i produced by extraction from the source
FramesFromSource(i) == DOMAIN frameTasks[i] \ FailingFrames(i)

\* all N frame tasks of invocation i have completed
AllFramesDone(i) ==
  /\ FramesLaunched(i)
  /\ \A k \in DOMAIN frameTasks[i] : frameTasks[i][k] = "resolved"

\* C21: with all N frame tasks complete and fewer than 2 frames extracted
\* from the source, the others replaced by blank frames, the sprite sheet
\* fails, and neither the tiling nor the upload is done.
FewExtractedFramesFail ==
  \A i \in Invocations :
    (AllFramesDone(i) /\ Cardinality(FramesFromSource(i)) < 2) =>
      /\ ~TilingLaunched(i)
      /\ "sprite" \in skipped[i]
      /\ pc[i] \notin {"spriteTile", "spriteUpload"}

\* What the code does: the floor of 2 counts the frame files in the frame
\* directory, blank replacements included, so with all N frame tasks
\* complete the tiling is launched however few frames came from the source.
FrameFloorCountsBlankFrames ==
  \A i \in Invocations :
    /\ AllFramesDone(i) =>
         /\ TilingLaunched(i)
         /\ Cardinality(tiled[i][1].input) = frames[i]
    /\ TilingLaunched(i) => Cardinality(tiled[i][1].input) >= 2

\* one frame of 25 came from the source, 24 are blank, and the sprite sheet
\* has been tiled and is being uploaded
UploadingSheetOfOneRealFrame ==
  \E i \in Invocations :
    /\ env.pattern = "allButOne"
    /\ frames[i] = 25
    /\ Cardinality(FramesFromSource(i)) = 1
    /\ AllFramesDone(i)
    /\ pc[i] = "spriteUpload"
    /\ spriteSheetPathOf(oid[i]) \in files

\* generateSpriteSheet has settled for invocation i
SpriteSettled(i) ==
  pc[i] \notin {"off", "idle", "called", "thumbProbe", "thumbExtract", "thumbUpload",
                "spriteCall", "sprite", "spriteProbe", "spriteFrames", "spriteTile",
                "spriteUpload"}

\* nothing exists at or under the frame directory of invocation i
NoFramesDir(i) ==
  /\ \A d \in dirs : ~IsPrefix(framesDirOf(oid[i]), d)
  /\ \A f \in files : ~IsPrefix(framesDirOf(oid[i]), f)

\* C22: when generateSpriteSheet has settled, with the sheet uploaded or
\* with any failure (missing source, probe failure, invalid duration, the
\* frame directory not made, a blank frame not written, tiling failure,
\* upload failure), uploads/<id>/frames_temp does not exist.
SpriteSettledLeavesNoFramesDir ==
  \A i \in Invocations : SpriteSettled(i) => NoFramesDir(i)

\* C22's case: a blank frame could not be written, the sprite sheet failed
\* with other frames of the batch still in flight and some already on disk
\* before, and the frame directory is gone
FailedBatchLeftNoFramesDir ==
  \E i \in Invocations :
    /\ SpriteSettled(i)
    /\ "sprite" \in skipped[i]
    /\ \E k \in DOMAIN frameTasks[i] : frameTasks[i][k] = "rejected"
    /\ \E k \in DOMAIN frameTasks[i] : frameTasks[i][k] = "resolved"
    /\ FramesInFlight(i) # {}
    /\ NoFramesDir(i)

\* the ids the sanitizer lets through
AcceptedIds == {Sanitize(raw) : raw \in RawIds} \ {""}

\* the working directories of a job
WorkDirs(id) == {outputDirOf(id), hlsOutputDirOf(id)}

\* no directory of one set equals or is an ancestor of one of the other
DisjointDirs(D, E) ==
  \A d \in D, e \in E : ~IsPrefix(d, e) /\ ~IsPrefix(e, d)

\* C23: the working directories of the job a request was accepted for are
\* disjoint from those of every other job id the sanitizer lets through.
WorkDirsDisjointAcrossIds ==
  \A i \in Invocations :
    (pc[i] \notin {"off", "request"} /\ oid[i] # "") =>
      \A B \in AcceptedIds \ {oid[i]} : DisjointDirs(WorkDirs(oid[i]), WorkDirs(B))

\* the job "hls" is being worked on: its scratch directory uploads/hls holds
\* the HLS output root of every job
JobNamedHlsAccepted ==
  \E i \in Invocations :
    /\ oid[i] = "hls"
    /\ pc[i] = "download"
    /\ outputDirOf("hls") \in dirs
    /\ IsPrefix(outputDirOf("hls"), hlsOutputDirOf("a"))

\* the upload tasks of invocation i that have not settled
UploadsPending(i) ==
  {k \in DOMAIN upState[i] : upState[i][k] \in {"queued", "active"}}

\* invocation i is between its first tier encode and the end of its uploads
EncodingOrUploading(i) == pc[i] \in {"encode", "uploadImport", "uploading"}

\* C24: nothing excludes two invocations for one job id from each other:
\* every register write of an invocation takes effect whatever the entry
\* held, so the entry is the value of whichever invocation wrote last; and an
\* invocation that settles has emptied the job's scratch directory and HLS
\* output tree whatever the other invocation is doing with them.
SameIdInvocationsRace ==
  [][\A i \in Invocations :
       /\ wrote'[i] # wrote[i] =>
            /\ status'[oid[i]] = Last(wrote'[i])
            /\ \A j \in Invocations \ {i} : wrote'[j] = wrote[j]
       /\ (pc[i] # "settled" /\ pc'[i] = "settled") =>
            /\ \A f \in files' : ~IsPrefix(hlsOutputDirOf(oid[i]), f)
            /\ \A f \in files' : ~IsPrefix(outputDirOf(oid[i]), f)]_vars

\* C24's case: two invocations for one id; one completed and settled, its
\* cleanup having removed files the other is still uploading, and the other,
\* writing last, has left the register at uploading
CleanupUnderRunningUpload ==
  \E i, j \in Invocations :
    /\ i # j
    /\ oid[i] = oid[j]
    /\ Settled(j)
    /\ Last(wrote[j]) = "completed"
    /\ pc[i] = "uploading"
    /\ \E k \in UploadsPending(i) : upFiles[i][k] \notin files
    /\ status[oid[i]] = "uploading"

\* the call of cleanupDirectory that has just returned or thrown was call
\* number n on the tree
CleanupCallDone(i, n) ==
  /\ pc[i] = (IF n = 1 THEN "cleanupCall" ELSE "cleanedOnce")
  /\ pc'[i] # pc[i]

\* the target of cleanupDirectory is a directory that holds nothing, or is
\* not there
EmptyOrRemoved(fs, dirPath) ==
  \/ ~Exists(fs, dirPath)
  \/ dirPath \in fs.dirs /\ Children(fs, dirPath) = {}

\* C25: cleanupDirectory never throws, whatever its target is and whichever
\* filesystem operation fails inside it; called on a directory that is empty
\* or not there it removes at most that directory and nothing else; and a
\* second call on the same tree leaves the filesystem as the first call left
\* it.
CleanupIsIdempotent ==
  /\ [](\A i \in Invocations : outcome[i].kind # "rejected")
  /\ [][\A i \in Invocations :
          /\ CleanupCallDone(i, 2) => dirs' = dirs /\ files' = files
          /\ (CleanupCallDone(i, 1) /\ EmptyOrRemoved(FS(dirs, files), env.dirPath)) =>
               /\ files' = files
               /\ dirs' \subseteq dirs
               /\ dirs \ dirs' \subseteq {env.dirPath}]_vars

\* C25's case: cleanupDirectory has returned twice for the root of a tree
\* that the first call removed
CleanedTwiceRemovedTree ==
  \E i \in Invocations :
    /\ pc[i] = "cleanedTwice"
    /\ env.dirPath = hlsOutputDirOf(oid[i])
    /\ ~Exists(FS(dirs, files), env.dirPath)
    /\ outcome[i].kind = "resolved"

\* the request carries no objectId, or one without a single letter, digit,
\* dash or underscore
WithoutUsableId(request) ==
  \/ ~request.given
  \/ \A k \in 1..Len(request.objectId) :
       SubSeq(request.objectId, k, k) \notin Letters \cup Digits \cup {"-", "_"}

\* the handler has received the request of invocation i
Received(i) == pc[i] \notin {"off", "request"}

\* C26: a request without an objectId, or whose objectId is empty once every
\* character other than letters, digits, dash and underscore is stripped, is
\* answered 400 in the step that receives it, and nothing else happens: no
\* directory or file is made, no download, engine call or upload starts, and
\* the Status Register gets no entry.
InvalidIdIs400WithoutEffects ==
  \A i \in Invocations :
    (Received(i) /\ WithoutUsableId(req[i])) =>
      /\ res[i] = [code |-> 400, failed |-> "objectId"]
      /\ dirs = {UPLOADS_DIR}
      /\ files = {}
      /\ \A id \in JobIds : status[id] = "none"
      /\ progress[i] = {}
      /\ wrote[i] = << >>
      /\ upLog[i] = << >>
      /\ upResult[i] = NotCalled

\* C26's case: a request whose objectId consists of characters the sanitizer
\* strips has been answered
PunctuationIdAnswered ==
  \E i \in Invocations :
    /\ req[i] = [given |-> TRUE, objectId |-> ".."]
    /\ pc[i] = "responded"

\* the handler has answered the request of invocation i, which carried a
\* usable id
AnsweredValid(i) == pc[i] = "responded" /\ res[i].code # 400

\* C27: once the handler has answered a request with a valid id, with 200 or
\* with 500 whichever step failed, the job's working directory uploads/<id>
\* and the downloaded source file in it are gone.
WorkDirRemovedOnceAnswered ==
  \A i \in Invocations :
    AnsweredValid(i) =>
      /\ ~Exists(FS(dirs, files), outputDirOf(oid[i]))
      /\ \A f \in files : ~IsPrefix(outputDirOf(oid[i]), f)

\* What the code does: the handler's catch block only sends the response, so
\* the request leaves no working directory behind only when convertToHLS ran
\* (its finally block removes it) or when the folder was never made.
WorkDirRemovedOnlyByConversion ==
  \A i \in Invocations :
    AnsweredValid(i) =>
      (Exists(FS(dirs, files), outputDirOf(oid[i]))
         <=> res[i].failed \in {"download", "thumbnail", "thumbnailUpload", "sprite"})

\* the 500 for a failed thumbnail upload has been sent and the source file is
\* still on disk
SourceLeftAfterThumbnailUploadFailure ==
  \E i \in Invocations :
    /\ pc[i] = "responded"
    /\ res[i] = [code |-> 500, failed |-> "thumbnailUpload"]
    /\ vpath[i] \in files

\* the steps the handler awaits between the download and convertToHLS
HandlerBestEffortSteps == {"thumbnail", "thumbnailUpload", "sprite"}

\* C28: in the request flow a failure of thumbnail generation, of the
\* thumbnail upload or of sprite-sheet generation is not fatal: no 500 is
\* sent for it, and every request whose source was downloaded gets its
\* convertToHLS run.
HandlerStepFailuresNonFatal ==
  \A i \in Invocations :
    pc[i] = "responded" =>
      /\ res[i].failed \notin HandlerBestEffortSteps
      /\ ("download" \in progress[i] /\ res[i].failed # "download") => wrote[i] # << >>

\* What the code does: the same failures are skipped when they happen inside
\* convertToHLS, which then still completes and is answered 200, while those
\* of the handler's own calls are answered 500 without convertToHLS being run.
HandlerStepFailuresAre500 ==
  \A i \in Invocations :
    pc[i] = "responded" =>
      /\ res[i].failed \in HandlerBestEffortSteps =>
           res[i].code = 500 /\ wrote[i] = << >> /\ outcome[i] = Pending
      /\ res[i].code = 200 => Last(wrote[i]) = "completed"

\* a request is answered 200 although a best-effort stage inside
\* convertToHLS failed
SkippedStageAnswered200 ==
  \E i \in Invocations :
    pc[i] = "responded" /\ res[i].code = 200 /\ skipped[i] # {}

\* a request is answered 500 for the failure of the handler's own sprite
\* sheet call
SpriteFailureAnswered500 ==
  \E i \in Invocations :
    pc[i] = "responded" /\ res[i] = [code |-> 500, failed |-> "sprite"]

\* C29: an invocation writes 'uploading' only with every tier of its plan
\* encoded without error and the master manifest written with one entry per
\* tier; it writes 'completed' only after that and with every file the
\* Upload Coordinator enumerated under the HLS output root, the master
\* manifest among them, accepted by storage; and the register holds
\* 'completed' for a job only if its invocation wrote it.
CompletedMeansManifestAndUploadsDone ==
  \A i \in Invocations :
    /\ "uploading" \in Range(wrote[i]) =>
         /\ plan[i] # << >>
         /\ Len(variants[i]) = Len(plan[i])
         /\ "encodeError" \notin progress[i]
         /\ Len(manifest[i]) = 1
         /\ Len(manifest[i][1]) = 1 + 2 * Len(plan[i])
    /\ "completed" \in Range(wrote[i]) =>
         /\ \E m, n \in DOMAIN wrote[i] :
              m < n /\ wrote[i][m] = "uploading" /\ wrote[i][n] = "completed"
         /\ upResult[i].kind = "resolved"
         /\ masterPlaylistPathOf(oid[i]) \in Range(upFiles[i])
         /\ \A k \in DOMAIN plan[i] :
              TierFiles(oid[i], plan[i][k].name) \subseteq Range(upFiles[i])
         /\ \A k \in DOMAIN upFiles[i] : upState[i][k] = "ok"
         /\ Len(upLog[i]) = Len(upFiles[i])
    /\ (pc[i] # "off" /\ oid[i] # "" /\ status[oid[i]] = "completed") =>
         "completed" \in Range(wrote[i])

\* C29's case: the register holds 'completed' for a job of two tiers whose
\* files, the master manifest and each tier's playlist and segment, were all
\* accepted
CompletedTwoTierJob ==
  \E i \in Invocations :
    /\ pc[i] # "off"
    /\ oid[i] # ""
    /\ status[oid[i]] = "completed"
    /\ Len(plan[i]) = 2
    /\ Len(upFiles[i]) = 1 + 2 * (1 + MaxSegments)

\* this step deletes a file under the HLS output root of invocation i
HlsTreeFileDeleted(i) ==
  \E f \in files \ files' : IsPrefix(hlsOutputDirOf(oid[i]), f)

\* the upload tasks of invocation i that have not settled
UploadsUnsettled(st) == {k \in DOMAIN st : st[k] \in {"queued", "active"}}

\* C30 as stated: no file of a job's HLS output tree is deleted before every
\* upload task of the job has settled, also when an upload has failed.
CleanupAfterAllUploadsSettled ==
  [][\A i \in Invocations :
       HlsTreeFileDeleted(i) => UploadsUnsettled(upState'[i]) = {}]_vars

\* C30, amended: a file of a job's HLS output tree is deleted only when every
\* upload task of the job has been fulfilled, or when one of them has failed
\* and the coordinator has rejected for it; in the second case the other
\* tasks may still be in flight.
CleanupAfterUploadsOrFirstFailure ==
  [][\A i \in Invocations :
       HlsTreeFileDeleted(i) =>
         \/ \A k \in DOMAIN upState'[i] : upState'[i][k] = "ok"
         \/ /\ upResult'[i].kind = "rejected"
            /\ \E k \in DOMAIN upState'[i] : upState'[i][k] = "failed"]_vars

\* C30's case: one upload failed, the invocation rejected and cleaned up, and
\* an upload of a file that the cleanup deleted is still in flight
CleanedUnderUploadInFlight ==
  \E i \in Invocations :
    /\ Settled(i)
    /\ upResult[i].kind = "rejected"
    /\ \E k \in DOMAIN upState[i] : upState[i][k] = "failed"
    /\ \E k \in DOMAIN upState[i] : upState[i][k] = "active" /\ upFiles[i][k] \notin files

\* the paths at or under one of the working directories of job id
InWorkDirs(fs, id) ==
  {p \in fs.dirs \cup fs.files : \E d \in WorkDirs(id) : IsPrefix(d, p)}

\* C31: what convertToHLS removes for job A (the directory cleanup, the
\* top-level startsWith sweep, the recursive residual sweep, the finally
\* block) leaves every file and directory under the working directories of
\* every other job B as it was, also when A's id is part of B's id or of the
\* names of B's files.
CleanupLeavesOtherJobsAlone ==
  [][\A i, j \in Invocations :
       (pc'[i] # pc[i] /\ oid[i] # "" /\ oid[j] # "" /\ oid[i] # oid[j]) =>
         InWorkDirs(FS(dirs, files), oid[j]) \subseteq dirs' \cup files']_vars

\* What the code does: the residual sweep of job A enters every directory
\* whose name contains A's id and deletes every file there whose name
\* contains it; directories are never removed by it.
CleanupOfOtherJobsOnlyBySubstring ==
  [][\A i, j \in Invocations :
       (pc'[i] # pc[i] /\ oid[i] # "" /\ oid[j] # "" /\ oid[i] # oid[j]) =>
         \A p \in InWorkDirs(FS(dirs, files), oid[j]) \ (dirs' \cup files') :
           /\ p \in files
           /\ Includes(Basename(p), oid[i])
           /\ Includes(oid[j], oid[i])]_vars

\* job "ab" is still encoding and its source file is gone: the sweep of job
\* "a", which has settled, took it
SourceOfOtherJobSwept ==
  \E i, j \in Invocations :
    /\ oid[i] = "a" /\ oid[j] = "ab"
    /\ Settled(i)
    /\ pc[j] = "encode"
    /\ vpath[j] \notin files

\* generateSpriteSheet has gone through its duration checks
Windowed(i) == pc[i] = "windowed"

\* C32: for every duration above 0 the safe window has a span above 0, so
\* the too-short failure is never raised: a duration that is not above 0
\* fails the invalid-duration check, and every other one gets a window of
\* start = 5% of the duration and end = 95% of it up to 40 s, of start = 2 s
\* and end = duration - 2 s from 40 s on; a duration of 100 s gets start 2 s,
\* end 98 s and span 96 s (values in twentieths of a millisecond).
SafeWindowSpanPositive ==
  \A i \in Invocations :
    Windowed(i) =>
      LET ms == env.durationMs
      IN /\ raised[i].err # "Video is too short for sprite sheet generation"
         /\ ms <= 0 => raised[i].err = "Invalid video duration" /\ window[i] = NoWindow
         /\ ms > 0 =>
              /\ raised[i] = NoError
              /\ window[i].safeDuration > 0
              /\ window[i].safeDuration = window[i].safeEnd - window[i].safeStart
              /\ 0 < window[i].safeStart /\ window[i].safeEnd < 20 * ms
         /\ (0 < ms /\ ms <= 40000) =>
              window[i].safeStart = ms /\ window[i].safeEnd = 19 * ms
         /\ ms >= 40000 =>
              window[i].safeStart = 40000 /\ window[i].safeEnd = 20 * ms - 40000
         /\ ms = 100000 =>
              window[i] = [safeStart |-> 2 * 20000, safeEnd |-> 98 * 20000,
                           safeDuration |-> 96 * 20000]

\* C32's case: the window of a 100-second source has been computed, with a
\* span of 96 seconds
WindowOf100Seconds ==
  \E i \in Invocations :
    /\ Windowed(i)
    /\ env.durationMs = 100000
    /\ window[i].safeDuration = 96 * 20000

====
